---- MODULE Spec2Model ----
(***************************************************************************)
(* A model of the MikanOS terminal (src/kernel/terminal.cpp): the argument *)
(* marshaller, the ELF loader, the launch image cache, the process         *)
(* launcher, the terminal line editor, the terminal task's event loop and  *)
(* the terminal file descriptor.                                           *)
(*                                                                         *)
(* C strings are sequences of one-character strings without their NUL;    *)
(* an index one past the end of a sequence is the NUL.                     *)
(*                                                                         *)
(* TLC's integers are 32 bits wide, so the 64-bit virtual addresses are   *)
(* scaled to 31 bits: the canonical boundary 0xffff800000000000           *)
(* (2^64 - 2^47) is UserBase = 2^31 - 2^30, and the two top pages          *)
(* 0xffffffffffffe000 / 0xfffffffffffff000 are the two top pages of the    *)
(* 31-bit space.  The page size stays 4096, so order, page alignment and   *)
(* page arithmetic are those of the code.                                  *)
(***************************************************************************)
EXTENDS Integers, Sequences, FiniteSets, TLC

VARIABLES
    \* ---- MakeArgVector, called on its own (SpecArgs)
    mavIn,        \* [command, first_arg]: the arguments of the call
    mavOut,       \* the result of the call, or NoResult before it
    \* ---- the process launcher
    files,        \* directory entry -> the image now stored under it
    g_app_loads,  \* the launch image cache: directory entry -> AppLoadInfo
    pml4s,        \* the page-table roots that are allocated
    owned,        \* root -> the pages whose frames the space owns
    shared,       \* root -> the pages mapped from another space's frames
    reserved,     \* the frames the rest of the kernel holds
    cr3,          \* task -> the root active while the task runs (0: kernel)
    ctx_cr3,      \* task -> task.Context().cr3
    pc,           \* task -> where the task is
    lv,           \* task -> the locals of the launch in progress
    task_files,   \* task -> the number of entries of task.Files()
    task_maps,    \* task -> the number of entries of task.FileMaps()
    dpaging,      \* task -> [begin, end, fmap_end] set by ExecuteFile
    tt,           \* task -> the locals of TaskTerminal
    first_load,   \* history: entry -> the layout its first load recorded
    launches,     \* history: the number of ExecuteFile calls so far
    \* ---- the terminals
    term,         \* task -> the Terminal object of the task
    \* ---- the tasks' messages and timers
    msgq,         \* task -> the task's message queue
    timers,       \* task -> the number of blink timers pending for the task
    sent,         \* the number of messages the environment has sent
    rd,           \* task -> the state of a Read call of the child
    dequeued,     \* task -> how many messages the task has taken from its
                  \* queue, modulo 2
    \* ---- the user at the keyboard
    user          \* history: what the user has entered and pressed

vars == << mavIn, mavOut, files, g_app_loads, pml4s, owned, shared, reserved, cr3,
           ctx_cr3, pc, lv, task_files, task_maps, dpaging, tt, first_load,
           launches, term, msgq, timers, sent, rd, dequeued, user >>

argsVars == << mavIn, mavOut >>
launchVars == << files, g_app_loads, pml4s, owned, shared, reserved, cr3, ctx_cr3,
                 lv, task_files, task_maps, dpaging, first_load, launches >>
loopVars == << msgq, timers, sent, rd, dequeued, user >>

--------------------------------------------------------------------------
\* Helpers

Max(a, b) == IF a >= b THEN a ELSE b

MinOf(S) == CHOOSE x \in S : \A y \in S : x <= y

\* n copies of the character c
Rep(c, n) == [i \in 1..n |-> c]

\* isspace() on the characters the model types
IsSpace(c) == c \in {" ", "\t", "\n"}

\* what a char* holds when it is nullptr
NullStr == << "nullptr" >>

--------------------------------------------------------------------------
\* MakeArgVector (terminal.cpp:17-67)

\* the bounds ExecuteFile passes (terminal.cpp:483-485)
argv_len == 32
kPageBytes == 4096
kPtrBytes == 8
argbuf_len == kPageBytes - kPtrBytes * argv_len

\* the state the lambda push_to_argv captures by reference
ArgState0 ==
    [ argc |-> 0, argbuf_index |-> 0, err |-> "kSuccess",
      argv |-> << >>,      \* argv[i]: an offset into argbuf
      strs |-> << >>,      \* the string strcpy stored at argv[i]
      wrote_end |-> 0 ]    \* one past the last byte of argbuf written

push_to_argv(st, s, alen, blen) ==
    IF st.argc >= alen \/ st.argbuf_index >= blen
    THEN [st EXCEPT !.err = "kFull"]
    ELSE [st EXCEPT !.argv = Append(@, st.argbuf_index),
                    !.strs = Append(@, s),
                    !.argc = @ + 1,
                    !.argbuf_index = @ + Len(s) + 1,
                    !.wrote_end = Max(@, st.argbuf_index + Len(s) + 1)]

\* while (isspace(p[0])) p++;  the index the loop stops at
SkipSpaces(s, p) ==
    LET stop == {i \in p..Len(s) : ~IsSpace(s[i])}
    IN  IF stop = {} THEN Len(s) + 1 ELSE MinOf(stop)

\* while (p[0] != 0 && !isspace(p[0])) p++;  the index the loop stops at
SkipWord(s, p) ==
    LET stop == {i \in p..Len(s) : IsSpace(s[i])}
    IN  IF stop = {} THEN Len(s) + 1 ELSE MinOf(stop)

\* the while (true) loop over first_arg, from index p
RECURSIVE ArgLoop(_, _, _, _, _)
ArgLoop(st, s, p, alen, blen) ==
    LET q == SkipSpaces(s, p)
    IN  IF q > Len(s)
        THEN st
        ELSE LET e == SkipWord(s, q)
                 is_end == e > Len(s)
                 st2 == push_to_argv(st, SubSeq(s, q, e - 1), alen, blen)
             IN  IF st2.err # "kSuccess" THEN st2
                 ELSE IF is_end THEN st2
                 ELSE ArgLoop(st2, s, e + 1, alen, blen)

MakeArgVector(command, first_arg, alen, blen) ==
    LET st1 == push_to_argv(ArgState0, command, alen, blen)
    IN  IF st1.err # "kSuccess" THEN st1
        ELSE IF first_arg = NullStr THEN st1
        ELSE ArgLoop(st1, first_arg, 1, alen, blen)

--------------------------------------------------------------------------
\* The Terminal object (terminal.cpp:237-617)

\* the grid and line sizes of terminal.hpp, scaled down
kRows == 3
kColumns == 12
kLineMax == 12
\* cmd_history_.resize(8) (terminal.cpp:253)
kHistory == 8

NUL == "NUL"          \* the character 0
BS == "BS"            \* the character '\b'
kKeyDown == 81     \* 0x51
kKeyUp == 82       \* 0x52

BlankRow == Rep(" ", kColumns)
BlankScreen == [r \in 1..kRows |-> BlankRow]

\* the C string that starts at offset off of the char array buf
CStr(buf, off) ==
    LET nul == {i \in (off + 1)..Len(buf) : buf[i] = NUL}
        end == IF nul = {} THEN Len(buf) + 1 ELSE MinOf(nul)
    IN  SubSeq(buf, off + 1, end - 1)

\* strcpy(&buf[0], s) on a char array
StrCpy(buf, s) ==
    [i \in 1..Len(buf) |->
        IF i <= Len(s) THEN s[i] ELSE IF i = Len(s) + 1 THEN NUL ELSE buf[i]]

\* a use of window_ that no show_window_ test guards: with no window the
\* shared_ptr is null and the access is undefined; the model records it
UseWindow(T) == IF T.show_window_ THEN T ELSE [T EXCEPT !.null_window = TRUE]

\* what such an access can do: read whatever lies behind the null pointer
\* and go on, or fault
UB == {"continue", "fault"}
Outcomes(T) == IF T.null_window THEN UB ELSE {"continue"}

\* WriteAscii / FillRectangle of one character cell of the window
DrawCell(T, x, y, c) ==
    IF T.show_window_ /\ x \in 0..(kColumns - 1) /\ y \in 0..(kRows - 1)
    THEN [T EXCEPT !.screen[y + 1][x + 1] = c]
    ELSE T

\* Terminal::Scroll1 (terminal.cpp:333-340)
Scroll1(T) ==
    IF ~T.show_window_
    THEN UseWindow(T)
    ELSE [T EXCEPT !.screen =
            [r \in 1..kRows |->
                IF r = T.cursor_y + 1 THEN BlankRow
                ELSE IF r < kRows THEN T.screen[r + 1]
                ELSE T.screen[r]]]

\* the lambda newline of Terminal::Print(char)
newline(T) ==
    LET T1 == [T EXCEPT !.cursor_x = 0]
    IN  IF T1.cursor_y < kRows - 1
        THEN [T1 EXCEPT !.cursor_y = @ + 1]
        ELSE Scroll1(T1)

\* Terminal::Print(char) (terminal.cpp:568-591)
PrintChar(T, c) ==
    IF c = "\n"
    THEN newline(T)
    ELSE LET T1 == DrawCell(T, T.cursor_x, T.cursor_y, c)
         IN  IF T1.cursor_x = kColumns - 1
             THEN newline(T1)
             ELSE [T1 EXCEPT !.cursor_x = @ + 1]

\* Print(c) for each character of s, in order (both branches give
\* PrintChars(T1, Tail(s)); the comparison has T1 evaluated at each character)
RECURSIVE PrintChars(_, _)
PrintChars(T, s) ==
    IF s = << >> THEN T
    ELSE LET T1 == PrintChar(T, Head(s))
         IN  IF T1 = T THEN PrintChars(T, Tail(s)) ELSE PrintChars(T1, Tail(s))

\* Terminal::Print(const char*, len) (terminal.cpp:538-566): the characters,
\* then window_->InnerSize() for the draw area of the message to the main task
PrintStr(T, s) == UseWindow(PrintChars(T, s))

--------------------------------------------------------------------------
\* String literals of the code, as character sequences

S_prompt == << ">" >>
S_nl == << "\n" >>
S_echo == << "e", "c", "h", "o" >>
S_clear == << "c", "l", "e", "a", "r" >>
S_lspci == << "l", "s", "p", "c", "i" >>
S_ls == << "l", "s" >>
S_cat == << "c", "a", "t" >>
S_noterm == << "n", "o", "t", "e", "r", "m" >>
S_memstat == << "m", "e", "m", "s", "t", "a", "t" >>
S_no_such_command == << "n", "o", " ", "s", "u", "c", "h", " ", "c", "o", "m", "m", "a", "n", "d", ":", " " >>
S_not_a_directory == << " ", "i", "s", " ", "n", "o", "t", " ", "a", " ", "d", "i", "r", "e", "c", "t", "o", "r", "y", "\n" >>
S_failed_to_exec == << "f", "a", "i", "l", "e", "d", " ", "t", "o", " ", "e", "x", "e", "c", " ", "f", "i", "l", "e", ":", " " >>
S_app_exited == << "a", "p", "p", " ", "e", "x", "i", "t", "e", "d", ".", " ", "r", "e", "t", " ", "=", " " >>

Digits == << "0", "1", "2", "3", "4", "5", "6", "7", "8", "9" >>

\* sprintf("%d") of an int
RECURSIVE DecNat(_)
DecNat(n) == IF n < 10 THEN << Digits[n + 1] >>
             ELSE DecNat(n \div 10) \o << Digits[(n % 10) + 1] >>
Dec(n) == IF n < 0 THEN << "-" >> \o DecNat(0 - n) ELSE DecNat(n)

\* Error::Name() of the error codes the launcher returns
ErrName(err) ==
    CASE err = "kFull" -> << "k", "F", "u", "l", "l" >>
      [] err = "kInvalidFormat" -> << "k", "I", "n", "v", "a", "l", "i", "d", "F", "o", "r", "m", "a", "t" >>
      [] err = "kInvalidFile" -> << "k", "I", "n", "v", "a", "l", "i", "d", "F", "i", "l", "e" >>
      [] err = "kNoEnoughMemory" -> << "k", "N", "o", "E", "n", "o", "u", "g", "h", "M", "e", "m", "o", "r", "y" >>
      [] err = "kUnknownError" -> << "k", "U", "n", "k", "n", "o", "w", "n", "E", "r", "r", "o", "r" >>
      [] OTHER -> << "k", "S", "u", "c", "c", "e", "s", "s" >>

--------------------------------------------------------------------------
\* The filesystem collaborator (fat::FindFile, fat::FormatName)

\* the directory entries of the root directory, all regular files, by name
Entries == {"p", "q"}
NoEntry == "none"

\* fat::FindFile(name): the entry the name finds and whether a slash ended it
FindFile(name) ==
    LET post_slash == Len(name) > 0 /\ name[Len(name)] = "/"
        base == IF post_slash THEN SubSeq(name, 1, Len(name) - 1) ELSE name
        hit == {e \in Entries : base = << e >>}
    IN  [ entry |-> IF hit = {} THEN NoEntry ELSE CHOOSE e \in hit : TRUE,
          post_slash |-> post_slash ]

\* fat::FormatName(entry, name)
FormatName(e) == << e >>

--------------------------------------------------------------------------
\* Terminal: the constructor, the line editor and the command dispatcher

\* Terminal::Terminal (terminal.cpp:237-254)
NewTerminal(show_window) ==
    LET T0 == [ show_window_ |-> show_window,
                cursor_x |-> 0, cursor_y |-> 0,
                linebuf_ |-> Rep(NUL, kLineMax), linebuf_index_ |-> 0,
                cmd_history_ |-> [i \in 1..kHistory |-> << >>],
                cmd_history_index_ |-> -1,
                cursol_visible_ |-> FALSE,
                screen |-> BlankScreen,
                null_window |-> FALSE,   \* window_ was used while null
                null_arg |-> FALSE ]     \* first_arg was read while null
    IN  IF show_window THEN PrintStr(T0, S_prompt) ELSE T0

\* HistoryUpDown whose test for going back is off by one
\* (cmd_history_index_ + 2 < cmd_history_.size())
HistoryUpDown_ShortRing(T, direction) ==
    LET idx == IF direction = -1 /\ T.cmd_history_index_ >= 0
               THEN T.cmd_history_index_ - 1
               ELSE IF direction = 1
                       /\ T.cmd_history_index_ + 2 < Len(T.cmd_history_)
               THEN T.cmd_history_index_ + 1
               ELSE T.cmd_history_index_
        history == IF idx >= 0 THEN T.cmd_history_[idx + 1] ELSE << >>
        row == [x \in 1..kColumns |->
                  IF x = 1 THEN T.screen[T.cursor_y + 1][x]
                  ELSE IF x - 1 <= Len(history) THEN history[x - 1]
                  ELSE " "]
        T1 == UseWindow(T)
    IN  [T1 EXCEPT !.cmd_history_index_ = idx,
                   !.linebuf_ = StrCpy(@, history),
                   !.linebuf_index_ = Len(history),
                   !.screen = IF T.show_window_
                              THEN [@ EXCEPT ![T.cursor_y + 1] = row] ELSE @,
                   !.cursor_x = Len(history) + 1]

\* Terminal::HistoryUpDown (terminal.cpp:593-617)
HistoryUpDown(T, direction) ==
    LET idx == IF direction = -1 /\ T.cmd_history_index_ >= 0
               THEN T.cmd_history_index_ - 1
               ELSE IF direction = 1
                       /\ T.cmd_history_index_ + 1 < Len(T.cmd_history_)
               THEN T.cmd_history_index_ + 1
               ELSE T.cmd_history_index_
        history == IF idx >= 0 THEN T.cmd_history_[idx + 1] ELSE << >>
        \* FillRectangle of the columns 1..kColumns-1, then WriteString
        row == [x \in 1..kColumns |->
                  IF x = 1 THEN T.screen[T.cursor_y + 1][x]
                  ELSE IF x - 1 <= Len(history) THEN history[x - 1]
                  ELSE " "]
        T1 == UseWindow(T)
    IN  [T1 EXCEPT !.cmd_history_index_ = idx,
                   !.linebuf_ = StrCpy(@, history),
                   !.linebuf_index_ = Len(history),
                   !.screen = IF T.show_window_
                              THEN [@ EXCEPT ![T.cursor_y + 1] = row] ELSE @,
                   !.cursor_x = Len(history) + 1]

\* what a handler leaves to its caller: the terminal, and what it asks for
Done(T) == [ T |-> T, kind |-> "done", file |-> NoEntry,
             command |-> << >>, first_arg |-> NullStr, arg_off |-> 0 ]

\* ExecuteLine whose echo prints the newline only after an argument
ExecuteLine_EchoNoNewline(T) ==
    LET line == CStr(T.linebuf_, 0)
        sp == {i \in 1..Len(line) : line[i] = " "}
        has_arg == sp # {}
        cut == IF has_arg THEN MinOf(sp) ELSE 0
        buf == IF has_arg THEN [T.linebuf_ EXCEPT ![cut] = NUL] ELSE T.linebuf_
        command == CStr(buf, 0)
        first_arg == IF has_arg THEN CStr(buf, cut) ELSE NullStr
        T1 == [T EXCEPT !.linebuf_ = buf]
        found == FindFile(command)
    IN  CASE command = S_echo ->
               Done(IF has_arg THEN PrintStr(PrintStr(T1, first_arg), S_nl)
                    ELSE T1)
          [] command = S_clear ->
               Done([T1 EXCEPT !.screen = IF T1.show_window_ THEN BlankScreen
                                          ELSE @,
                               !.cursor_y = 0])
          [] command = S_noterm ->
               [Done(T1) EXCEPT !.kind = "spawn", !.arg_off = cut]
          [] command \in {S_lspci, S_ls, S_cat, S_memstat} ->
               [Done(T1) EXCEPT !.kind = "builtin", !.command = command,
                                !.first_arg = first_arg]
          [] command = << >> -> Done(T1)
          [] OTHER ->
               IF found.entry = NoEntry
               THEN Done(PrintStr(PrintStr(PrintStr(T1, S_no_such_command),
                                           command), S_nl))
               ELSE IF found.post_slash
               THEN Done(PrintStr(PrintStr(T1, FormatName(found.entry)),
                                  S_not_a_directory))
               ELSE [Done(T1) EXCEPT !.kind = "exec", !.file = found.entry,
                                     !.command = command,
                                     !.first_arg = first_arg]

\* ExecuteLine whose clear moves the cursor but leaves the grid as it is
ExecuteLine_ClearKeepsGrid(T) ==
    LET line == CStr(T.linebuf_, 0)
        sp == {i \in 1..Len(line) : line[i] = " "}
        has_arg == sp # {}
        cut == IF has_arg THEN MinOf(sp) ELSE 0
        buf == IF has_arg THEN [T.linebuf_ EXCEPT ![cut] = NUL] ELSE T.linebuf_
        command == CStr(buf, 0)
        first_arg == IF has_arg THEN CStr(buf, cut) ELSE NullStr
        T1 == [T EXCEPT !.linebuf_ = buf]
        found == FindFile(command)
    IN  CASE command = S_echo ->
               Done(PrintStr(IF has_arg THEN PrintStr(T1, first_arg) ELSE T1,
                             S_nl))
          [] command = S_clear ->
               Done([T1 EXCEPT !.cursor_y = 0])
          [] command = S_noterm ->
               [Done(T1) EXCEPT !.kind = "spawn", !.arg_off = cut]
          [] command \in {S_lspci, S_ls, S_cat, S_memstat} ->
               [Done(T1) EXCEPT !.kind = "builtin", !.command = command,
                                !.first_arg = first_arg]
          [] command = << >> -> Done(T1)
          [] OTHER ->
               IF found.entry = NoEntry
               THEN Done(PrintStr(PrintStr(PrintStr(T1, S_no_such_command),
                                           command), S_nl))
               ELSE IF found.post_slash
               THEN Done(PrintStr(PrintStr(T1, FormatName(found.entry)),
                                  S_not_a_directory))
               ELSE [Done(T1) EXCEPT !.kind = "exec", !.file = found.entry,
                                     !.command = command,
                                     !.first_arg = first_arg]

\* Terminal::ExecuteLine (terminal.cpp:342-460), up to a call of ExecuteFile
\* or of NewTask: "exec" asks for ExecuteFile(file, command, first_arg),
\* "spawn" for a new task on TaskTerminal with data = &linebuf_[arg_off]
\* (arg_off = 0: nullptr)
ExecuteLine(T) ==
    LET line == CStr(T.linebuf_, 0)
        sp == {i \in 1..Len(line) : line[i] = " "}
        has_arg == sp # {}
        cut == IF has_arg THEN MinOf(sp) ELSE 0
        buf == IF has_arg THEN [T.linebuf_ EXCEPT ![cut] = NUL] ELSE T.linebuf_
        command == CStr(buf, 0)
        first_arg == IF has_arg THEN CStr(buf, cut) ELSE NullStr
        T1 == [T EXCEPT !.linebuf_ = buf]
        found == FindFile(command)
    IN  CASE command = S_echo ->
               Done(PrintStr(IF has_arg THEN PrintStr(T1, first_arg) ELSE T1,
                             S_nl))
          [] command = S_clear ->
               Done([T1 EXCEPT !.screen = IF T1.show_window_ THEN BlankScreen
                                          ELSE @,
                               !.cursor_y = 0])
          [] command = S_noterm ->
               [Done(T1) EXCEPT !.kind = "spawn", !.arg_off = cut]
          [] command \in {S_lspci, S_ls, S_cat, S_memstat} ->
               [Done(T1) EXCEPT !.kind = "builtin", !.command = command,
                                !.first_arg = first_arg]
          [] command = << >> -> Done(T1)
          [] OTHER ->
               IF found.entry = NoEntry
               THEN Done(PrintStr(PrintStr(PrintStr(T1, S_no_such_command),
                                           command), S_nl))
               ELSE IF found.post_slash
               THEN Done(PrintStr(PrintStr(T1, FormatName(found.entry)),
                                  S_not_a_directory))
               ELSE [Done(T1) EXCEPT !.kind = "exec", !.file = found.entry,
                                     !.command = command,
                                     !.first_arg = first_arg]

\* the rest of ExecuteLine and of InputKey once ExecuteFile has returned err
\* (terminal.cpp:454-458, 294-296)
AfterExecuteFile(T, err) ==
    LET T1 == IF err # "kSuccess"
              THEN PrintStr(PrintStr(PrintStr(T, S_failed_to_exec),
                                     ErrName(err)), S_nl)
              ELSE T
    IN  UseWindow(PrintStr(T1, S_prompt))

\* InputKey whose Enter pushes the line onto the history without pop_back
InputKey_HistoryGrows(T, modifier, keycode, ascii) ==
    IF ascii = "\n"
    THEN LET buf == [T.linebuf_ EXCEPT ![T.linebuf_index_ + 1] = NUL]
             hist == IF T.linebuf_index_ > 0
                     THEN << CStr(buf, 0) >> \o T.cmd_history_
                     ELSE T.cmd_history_
             T1 == [T EXCEPT !.linebuf_ = buf, !.cmd_history_ = hist,
                             !.linebuf_index_ = 0, !.cmd_history_index_ = -1,
                             !.cursor_x = 0]
             T2 == IF T1.cursor_y < kRows - 1
                   THEN [T1 EXCEPT !.cursor_y = @ + 1]
                   ELSE Scroll1(T1)
             r == ExecuteLine(T2)
         IN  IF r.kind \in {"exec", "builtin"} THEN r
             ELSE [r EXCEPT !.T = UseWindow(PrintStr(r.T, S_prompt))]
    ELSE IF ascii = BS
    THEN IF T.cursor_x > 0
         THEN LET T1 == DrawCell([T EXCEPT !.cursor_x = @ - 1],
                                 T.cursor_x - 1, T.cursor_y, " ")
              IN  Done(IF T1.linebuf_index_ > 0
                       THEN [T1 EXCEPT !.linebuf_index_ = @ - 1] ELSE T1)
         ELSE Done(T)
    ELSE IF ascii # NUL
    THEN IF T.cursor_x < kColumns - 1 /\ T.linebuf_index_ < kLineMax - 1
         THEN Done([DrawCell(T, T.cursor_x, T.cursor_y, ascii) EXCEPT
                       !.linebuf_[T.linebuf_index_ + 1] = ascii,
                       !.linebuf_index_ = @ + 1,
                       !.cursor_x = @ + 1])
         ELSE Done(T)
    ELSE IF keycode = kKeyDown THEN Done(HistoryUpDown(T, -1))
    ELSE IF keycode = kKeyUp THEN Done(HistoryUpDown(T, 1))
    ELSE Done(T)

\* Terminal::InputKey (terminal.cpp:272-327)
InputKey(T, modifier, keycode, ascii) ==
    IF ascii = "\n"
    THEN LET buf == [T.linebuf_ EXCEPT ![T.linebuf_index_ + 1] = NUL]
             hist == IF T.linebuf_index_ > 0
                     THEN << CStr(buf, 0) >>
                          \o SubSeq(T.cmd_history_, 1, Len(T.cmd_history_) - 1)
                     ELSE T.cmd_history_
             T1 == [T EXCEPT !.linebuf_ = buf, !.cmd_history_ = hist,
                             !.linebuf_index_ = 0, !.cmd_history_index_ = -1,
                             !.cursor_x = 0]
             T2 == IF T1.cursor_y < kRows - 1
                   THEN [T1 EXCEPT !.cursor_y = @ + 1]
                   ELSE Scroll1(T1)
             r == ExecuteLine(T2)
         IN  IF r.kind \in {"exec", "builtin"} THEN r
             ELSE [r EXCEPT !.T = UseWindow(PrintStr(r.T, S_prompt))]
    ELSE IF ascii = BS
    THEN IF T.cursor_x > 0
         THEN LET T1 == DrawCell([T EXCEPT !.cursor_x = @ - 1],
                                 T.cursor_x - 1, T.cursor_y, " ")
              IN  Done(IF T1.linebuf_index_ > 0
                       THEN [T1 EXCEPT !.linebuf_index_ = @ - 1] ELSE T1)
         ELSE Done(T)
    ELSE IF ascii # NUL
    THEN IF T.cursor_x < kColumns - 1 /\ T.linebuf_index_ < kLineMax - 1
         THEN Done([DrawCell(T, T.cursor_x, T.cursor_y, ascii) EXCEPT
                       !.linebuf_[T.linebuf_index_ + 1] = ascii,
                       !.linebuf_index_ = @ + 1,
                       !.cursor_x = @ + 1])
         ELSE Done(T)
    ELSE IF keycode = kKeyDown THEN Done(HistoryUpDown(T, -1))
    ELSE IF keycode = kKeyUp THEN Done(HistoryUpDown(T, 1))
    ELSE Done(T)

--------------------------------------------------------------------------
\* Executable images and the ELF loader (terminal.cpp:69-131)

\* 0xffff800000000000, 0xffffffffffffe000, 0xfffffffffffff000 at 31 bits
UserBase == 2^30
StackFrameAddr == UserBase + (UserBase - 2 * kPageBytes)
ArgsFrameAddr == UserBase + (UserBase - kPageBytes)

PageBase(a) == a - (a % kPageBytes)

Phdr(type, vaddr, paddr, memsz, filesz) ==
    [ p_type |-> type, p_vaddr |-> vaddr, p_paddr |-> paddr,
      p_memsz |-> memsz, p_filesz |-> filesz ]

\* the images a directory entry may hold: the first bytes, the ELF header
\* fields the loader reads and the program headers
Images ==
    [ A |-> [ magic |-> TRUE, e_type |-> "ET_EXEC", e_entry |-> UserBase + 256,
              phdr |-> << Phdr("PT_LOAD", UserBase, UserBase, 4196, 4100) >> ],
      B |-> [ magic |-> TRUE, e_type |-> "ET_EXEC", e_entry |-> UserBase + 4352,
              phdr |-> << Phdr("PT_NOTE", 0, 0, 32, 32),
                          Phdr("PT_LOAD", UserBase + 4096, UserBase + 4096,
                               100, 100) >> ],
      Text |-> [ magic |-> FALSE, e_type |-> "ET_NONE", e_entry |-> 0,
                 phdr |-> << >> ],
      Dyn |-> [ magic |-> TRUE, e_type |-> "ET_DYN", e_entry |-> UserBase + 256,
                phdr |-> << Phdr("PT_LOAD", UserBase, UserBase, 100, 100) >> ],
      Low |-> [ magic |-> TRUE, e_type |-> "ET_EXEC", e_entry |-> 4194560,
                phdr |-> << Phdr("PT_NOTE", UserBase, UserBase, 32, 32),
                            Phdr("PT_LOAD", 4194304, 4194304, 100, 100),
                            Phdr("PT_LOAD", UserBase, UserBase, 100, 100) >> ],
      NoLoad |-> [ magic |-> TRUE, e_type |-> "ET_EXEC", e_entry |-> UserBase,
                   phdr |-> << Phdr("PT_NOTE", UserBase, UserBase, 32, 32) >> ],
      \* a segment that ends on a page boundary
      Even |-> [ magic |-> TRUE, e_type |-> "ET_EXEC", e_entry |-> UserBase,
                 phdr |-> << Phdr("PT_LOAD", UserBase, UserBase,
                                  4096, 4000) >> ],
      \* a segment that does not begin on a page boundary
      Odd |-> [ magic |-> TRUE, e_type |-> "ET_EXEC",
                e_entry |-> UserBase + 2048,
                phdr |-> << Phdr("PT_LOAD", UserBase + 2048, UserBase + 2048,
                                 4096, 4096) >> ],
      \* a segment whose p_paddr lies below its p_vaddr
      Phys |-> [ magic |-> TRUE, e_type |-> "ET_EXEC",
                 e_entry |-> UserBase + 8192,
                 phdr |-> << Phdr("PT_LOAD", UserBase + 8192, UserBase,
                                  100, 100) >> ] ]

ImageNames == DOMAIN Images

\* GetFirstLoadAddress (terminal.cpp:73-82)
\* GetFirstLoadAddress without the test of p_type: the first header's address
GetFirstLoadAddress_AnyType(ehdr) ==
    IF Len(ehdr.phdr) = 0 THEN 0 ELSE ehdr.phdr[1].p_vaddr

GetFirstLoadAddress(ehdr) ==
    LET loads == {i \in 1..Len(ehdr.phdr) : ehdr.phdr[i].p_type = "PT_LOAD"}
    IN  IF loads = {} THEN 0 ELSE ehdr.phdr[MinOf(loads)].p_vaddr

--------------------------------------------------------------------------
\* The paging collaborator (paging.hpp) on the page tables of the model:
\* a space is a root, the pages whose frames it owns and the pages it maps
\* from another space's frames; a space that maps any page also owns one
\* frame of intermediate tables.

\* the frames of the machine
TotalFrames == 10
\* how many times ExecuteFile is called in a behaviour
MaxLaunches == 2

\* the names of the roots: a launch allocates two at most
Roots == 1..(2 * MaxLaunches)

TableFrames(ow, sh, r) == IF ow[r] \cup sh[r] = {} THEN 0 ELSE 1

\* the frames the page tables of the model hold
AllocatedFrames(roots, ow, sh) ==
    LET RECURSIVE Sum(_)
        Sum(R) == IF R = {} THEN 0
                  ELSE LET r == CHOOSE x \in R : TRUE
                       IN  Cardinality(ow[r]) + TableFrames(ow, sh, r)
                           + Sum(R \ {r})
    IN  Cardinality(roots) + Sum(Roots)

\* the state of the page tables, as the operators below thread it
Mem(roots, ow, sh, res) ==
    [ pml4s |-> roots, owned |-> ow, shared |-> sh, reserved |-> res ]

\* memory_manager->Stat().allocated_frames
UsedFrames(m) == m.reserved + AllocatedFrames(m.pml4s, m.owned, m.shared)

FreeFrames(m) == TotalFrames - UsedFrames(m)

\* NewPageMap(): a fresh root, or no memory
NewPageMap(m) ==
    LET free == {r \in Roots : r \notin m.pml4s /\ m.owned[r] = {}}
    IN  IF FreeFrames(m) < 1 \/ free = {}
        THEN [ m |-> m, value |-> 0, err |-> "kNoEnoughMemory" ]
        ELSE LET r == MinOf(free)
             IN  [ m |-> [m EXCEPT !.pml4s = @ \cup {r}],
                   value |-> r, err |-> "kSuccess" ]

\* the pages SetupPageMaps(addr, num_4kpages) asks for
PagesAt(addr, n) == {PageBase(addr) + i * kPageBytes : i \in 0..(n - 1)}

\* SetupPageMaps(addr, num_4kpages, writable) on the active root: the pages
\* not mapped yet get a frame each, lowest first, until memory runs out
SetupPageMaps(m, root, addr, n) ==
    LET want == PagesAt(addr, n) \ (m.owned[root] \cup m.shared[root])
        tbl == IF m.owned[root] \cup m.shared[root] = {} /\ want # {}
               THEN 1 ELSE 0
        room == FreeFrames(m) - tbl
        got == {a \in want : Cardinality({b \in want : b < a}) < room}
    IN  [ m |-> [m EXCEPT !.owned[root] = @ \cup got],
          err |-> IF got = want THEN "kSuccess" ELSE "kNoEnoughMemory" ]

\* CopyPageMaps(dest, src, 4, 256): the user half of src, mapped into dest
\* without new frames for the pages
CopyPageMaps(m, dest, src) ==
    LET pages == (m.owned[src] \cup m.shared[src]) \ m.owned[dest]
        tbl == IF m.owned[dest] \cup m.shared[dest] = {} /\ pages # {}
               THEN 1 ELSE 0
    IN  IF FreeFrames(m) < tbl
        THEN [ m |-> m, err |-> "kNoEnoughMemory" ]
        ELSE [ m |-> [m EXCEPT !.shared[dest] = @ \cup pages],
               err |-> "kSuccess" ]

\* CleanPageMaps(0xffff800000000000) on the active root: every mapping of
\* the user half goes, and the frames the space owns are freed; when the
\* collaborator reports an error (ok = FALSE) the mappings stay
CleanPageMaps(m, root, ok) ==
    IF ok
    THEN [ m |-> [m EXCEPT !.owned[root] = {}, !.shared[root] = {}],
           err |-> "kSuccess" ]
    ELSE [ m |-> m, err |-> "kUnknownError" ]

\* FreePageMap(root): the root's frame is freed
FreePageMap(m, root) ==
    [m EXCEPT !.pml4s = @ \ {root}, !.shared[root] = {}]

\* CopyLoadSegments (terminal.cpp:88-114), from program header i on: the
\* page tables, the running last_addr, the error and the memcpy calls made
RECURSIVE CopyLoadSegmentsFrom(_, _, _, _, _, _)
CopyLoadSegmentsFrom(m, root, ehdr, i, last_addr, copies) ==
    IF i > Len(ehdr.phdr)
    THEN [ m |-> m, value |-> last_addr, err |-> "kSuccess",
           copies |-> copies ]
    ELSE LET ph == ehdr.phdr[i]
         IN  IF ph.p_type # "PT_LOAD"
             THEN CopyLoadSegmentsFrom(m, root, ehdr, i + 1, last_addr, copies)
             ELSE LET last == Max(last_addr, ph.p_paddr + ph.p_memsz)
                      num_4kpages == (ph.p_memsz + 4095) \div 4096
                      r == SetupPageMaps(m, root, ph.p_vaddr, num_4kpages)
                      \* memcpy(dst, src, filesz), then
                      \* memcpy(dst + filesz, 0, memsz - filesz)
                      done == << [ dst |-> ph.p_vaddr, src |-> "image",
                                   n |-> ph.p_filesz ],
                                 [ dst |-> ph.p_vaddr + ph.p_filesz,
                                   src |-> "address 0",
                                   n |-> ph.p_memsz - ph.p_filesz ] >>
                  IN  IF r.err # "kSuccess"
                      THEN [ m |-> r.m, value |-> last, err |-> r.err,
                             copies |-> copies ]
                      ELSE CopyLoadSegmentsFrom(r.m, root, ehdr, i + 1, last,
                                                copies \o done)

CopyLoadSegments(m, root, ehdr) ==
    CopyLoadSegmentsFrom(m, root, ehdr, 1, 0, << >>)

\* LoadElf without the test of e_type
LoadElf_NoTypeTest(m, root, ehdr) ==
    IF GetFirstLoadAddress(ehdr) < UserBase
    THEN [ m |-> m, value |-> 0, err |-> "kInvalidFormat", copies |-> << >> ]
    ELSE CopyLoadSegments(m, root, ehdr)

\* LoadElf (terminal.cpp:118-131)
LoadElf(m, root, ehdr) ==
    IF ehdr.e_type # "ET_EXEC"
    THEN [ m |-> m, value |-> 0, err |-> "kInvalidFormat", copies |-> << >> ]
    ELSE IF GetFirstLoadAddress(ehdr) < UserBase
    THEN [ m |-> m, value |-> 0, err |-> "kInvalidFormat", copies |-> << >> ]
    ELSE CopyLoadSegments(m, root, ehdr)

--------------------------------------------------------------------------
\* The process launcher: LoadApp and Terminal::ExecuteFile

Tasks == {1, 2}

\* how many pages a running program faults in
MaxDemand == 1

\* what the program may return from CallApp
ExitCodes == {0, -1}

\* what each directory entry may hold
Contents == [ p |-> {"A", "B", "Text"}, q |-> {"Dyn", "Low", "NoLoad"} ]

NoLoadInfo == [ vaddr_end |-> 0, entry |-> 0, pml4 |-> 0 ]

LV0 == [ file |-> NoEntry, command |-> << >>, first_arg |-> NullStr,
         temp_pml4 |-> 0, app_load |-> NoLoadInfo, err |-> "kSuccess",
         hit |-> FALSE,        \* the cache lookup found the entry
         cached |-> FALSE,     \* the entry was cached when the call began
         loaded |-> "none",    \* the image fat::LoadFile read, if it was called
         copies |-> << >>,     \* the memcpy calls of the load
         mapped |-> {},        \* the roots this launch allocated
         before |-> 0,         \* allocated frames when the call began
         called |-> FALSE,     \* CallApp was reached
         failed |-> {},        \* history: the entries whose load has failed
         argc |-> 0, ret |-> 0 ]

mem == Mem(pml4s, owned, shared, reserved)

SetMem(m) ==
    /\ pml4s' = m.pml4s
    /\ owned' = m.owned
    /\ shared' = m.shared

\* the entry of ExecuteFile(file_entry, command, first_arg) in task t: the
\* locals of the call
ExecuteFile_Enter(t, f, command, first_arg) ==
    /\ launches < MaxLaunches
    /\ launches' = launches + 1
    /\ pc' = [pc EXCEPT ![t] = "LoadApp"]
    /\ lv' = [lv EXCEPT ![t] =
                [LV0 EXCEPT !.file = f, !.command = command,
                            !.first_arg = first_arg,
                            !.cached = f \in DOMAIN g_app_loads,
                            !.failed = lv[t].failed,
                            !.before = UsedFrames(mem)]]
    /\ UNCHANGED << reserved, files, g_app_loads, pml4s, owned, shared, cr3, ctx_cr3,
                    task_files, task_maps, dpaging, first_load >>

\* the call of ExecuteFile(file_entry, command, first_arg) by an idle task t
ExecuteFile_Call(t, f, command, first_arg) ==
    /\ pc[t] = "idle"
    /\ ExecuteFile_Enter(t, f, command, first_arg)
    /\ UNCHANGED << tt, term, argsVars, loopVars >>

\* the insert with the initialisers of AppLoadInfo in the wrong order
CacheInsert_Swapped(cache, f, app_load) ==
    IF f \in DOMAIN cache THEN cache
    ELSE [e \in DOMAIN cache \cup {f} |->
            IF e = f
            THEN [app_load EXCEPT !.entry = app_load.vaddr_end,
                                  !.vaddr_end = app_load.entry]
            ELSE cache[e]]

\* g_app_loads->insert(std::make_pair(&file_entry, app_load)): std::map's
\* insert leaves an entry that is there alone
CacheInsert(cache, f, app_load) ==
    IF f \in DOMAIN cache THEN cache
    ELSE [e \in DOMAIN cache \cup {f} |->
            IF e = f THEN app_load ELSE cache[e]]

\* the hit path with AppLoadInfo& app_load = it->second: the assignment
\* app_load.pml4 = temp_pml4 writes into the cache
HitUpdate_ByReference(cache, f, temp_pml4) ==
    [cache EXCEPT ![f].pml4 = temp_pml4]

\* the hit path's AppLoadInfo app_load = it->second: a copy, so the
\* assignment app_load.pml4 = temp_pml4 leaves the cache alone
HitUpdate(cache, f, temp_pml4) == cache

\* LoadApp, terminal.cpp:189-203: SetupPML4, the cache lookup and, on a hit,
\* the copy of the cached page maps
LoadApp_Setup(t) ==
    /\ pc[t] = "LoadApp"
    /\ LET f == lv[t].file
           r == NewPageMap(mem)
       IN  IF r.err # "kSuccess"
           THEN /\ lv' = [lv EXCEPT ![t].err = r.err]
                /\ pc' = [pc EXCEPT ![t] = "ExecRet"]
                /\ UNCHANGED << pml4s, owned, shared, cr3, ctx_cr3,
                                g_app_loads >>
           ELSE /\ cr3' = [cr3 EXCEPT ![t] = r.value]
                /\ ctx_cr3' = [ctx_cr3 EXCEPT ![t] = r.value]
                /\ IF f \in DOMAIN g_app_loads
                   THEN LET c == CopyPageMaps(r.m, r.value, g_app_loads[f].pml4)
                        IN  /\ SetMem(c.m)
                            /\ g_app_loads' = HitUpdate(g_app_loads, f, r.value)
                            /\ lv' = [lv EXCEPT
                                 ![t].temp_pml4 = r.value,
                                 ![t].mapped = @ \cup {r.value},
                                 ![t].hit = TRUE,
                                 ![t].app_load =
                                     [g_app_loads[f] EXCEPT !.pml4 = r.value],
                                 ![t].err = c.err]
                            /\ pc' = [pc EXCEPT ![t] =
                                 IF c.err # "kSuccess" THEN "ExecRet"
                                 ELSE "ExecArgs"]
                   ELSE /\ SetMem(r.m)
                        /\ UNCHANGED g_app_loads
                        /\ lv' = [lv EXCEPT ![t].temp_pml4 = r.value,
                                            ![t].mapped = @ \cup {r.value}]
                        /\ pc' = [pc EXCEPT ![t] = "LoadFile"]
    /\ UNCHANGED << reserved, files, task_files, task_maps, dpaging, tt, first_load,
                    launches, term >>
    /\ UNCHANGED << argsVars, loopVars >>

\* LoadApp, terminal.cpp:205-223: fat::LoadFile, the magic, LoadElf and the
\* insertion into the cache
LoadApp_Load(t) ==
    /\ pc[t] = "LoadFile"
    /\ LET f == lv[t].file
           ehdr == Images[files[f]]
           r == LoadElf(mem, cr3[t], ehdr)
           app_load == [ vaddr_end |-> r.value, entry |-> ehdr.e_entry,
                         pml4 |-> lv[t].temp_pml4 ]
       IN  IF ~ehdr.magic
           THEN /\ lv' = [lv EXCEPT ![t].loaded = files[f],
                                    ![t].failed = @ \cup {f},
                                    ![t].err = "kInvalidFile"]
                /\ pc' = [pc EXCEPT ![t] = "ExecRet"]
                /\ UNCHANGED << pml4s, owned, shared, g_app_loads, first_load >>
           ELSE IF r.err # "kSuccess"
           THEN /\ SetMem(r.m)
                /\ lv' = [lv EXCEPT ![t].loaded = files[f],
                                    ![t].copies = r.copies,
                                    ![t].failed = @ \cup {f},
                                    ![t].err = r.err]
                /\ pc' = [pc EXCEPT ![t] = "ExecRet"]
                /\ UNCHANGED << g_app_loads, first_load >>
           ELSE /\ SetMem(r.m)
                /\ g_app_loads' = CacheInsert(g_app_loads, f, app_load)
                /\ first_load' = IF f \in DOMAIN first_load THEN first_load
                                 ELSE [e \in DOMAIN first_load \cup {f} |->
                                         IF e = f THEN app_load
                                         ELSE first_load[e]]
                /\ lv' = [lv EXCEPT ![t].loaded = files[f],
                                    ![t].copies = r.copies,
                                    ![t].app_load = app_load]
                /\ pc' = [pc EXCEPT ![t] = "LoadApp2"]
    /\ UNCHANGED << reserved, files, cr3, ctx_cr3, task_files, task_maps, dpaging, tt,
                    launches, term >>
    /\ UNCHANGED << argsVars, loopVars >>

\* LoadApp, terminal.cpp:225-231: the second SetupPML4 and the copy of the
\* loaded page maps into it
LoadApp_Second(t) ==
    /\ pc[t] = "LoadApp2"
    /\ LET r == NewPageMap(mem)
       IN  IF r.err # "kSuccess"
           THEN /\ lv' = [lv EXCEPT ![t].err = r.err]
                /\ pc' = [pc EXCEPT ![t] = "ExecRet"]
                /\ UNCHANGED << pml4s, owned, shared, cr3, ctx_cr3 >>
           ELSE LET c == CopyPageMaps(r.m, r.value, lv[t].temp_pml4)
                IN  /\ SetMem(c.m)
                    /\ cr3' = [cr3 EXCEPT ![t] = r.value]
                    /\ ctx_cr3' = [ctx_cr3 EXCEPT ![t] = r.value]
                    /\ lv' = [lv EXCEPT ![t].app_load.pml4 = r.value,
                                        ![t].mapped = @ \cup {r.value},
                                        ![t].err = c.err]
                    /\ pc' = [pc EXCEPT ![t] =
                         IF c.err # "kSuccess" THEN "ExecRet" ELSE "ExecArgs"]
    /\ UNCHANGED << reserved, files, g_app_loads, task_files, task_maps, dpaging, tt,
                    first_load, launches, term >>
    /\ UNCHANGED << argsVars, loopVars >>

\* ExecuteFile, terminal.cpp:473-520: the argument page, MakeArgVector, the
\* stack page, the standard files, the paging ranges and CallApp
ExecuteFile_Args(t) ==
    /\ pc[t] = "ExecArgs"
    /\ LET root == cr3[t]
           a == SetupPageMaps(mem, root, ArgsFrameAddr, 1)
           argc == MakeArgVector(lv[t].command, lv[t].first_arg,
                                 argv_len, argbuf_len)
           k == SetupPageMaps(a.m, root, StackFrameAddr, 1)
           elf_next_page == PageBase(lv[t].app_load.vaddr_end + 4096)
       IN  IF a.err # "kSuccess"
           THEN /\ SetMem(a.m)
                /\ lv' = [lv EXCEPT ![t].err = a.err]
                /\ pc' = [pc EXCEPT ![t] = "ExecRet"]
                /\ UNCHANGED << task_files, dpaging >>
           ELSE IF argc.err # "kSuccess"
           THEN /\ SetMem(a.m)
                /\ lv' = [lv EXCEPT ![t].err = argc.err, ![t].argc = argc.argc]
                /\ pc' = [pc EXCEPT ![t] = "ExecRet"]
                /\ UNCHANGED << task_files, dpaging >>
           ELSE IF k.err # "kSuccess"
           THEN /\ SetMem(k.m)
                /\ lv' = [lv EXCEPT ![t].err = k.err, ![t].argc = argc.argc]
                /\ pc' = [pc EXCEPT ![t] = "ExecRet"]
                /\ UNCHANGED << task_files, dpaging >>
           ELSE /\ SetMem(k.m)
                /\ task_files' = [task_files EXCEPT ![t] = @ + 3]
                /\ dpaging' = [dpaging EXCEPT ![t] =
                                 [ begin |-> elf_next_page,
                                   end |-> elf_next_page,
                                   fmap_end |-> StackFrameAddr ]]
                /\ lv' = [lv EXCEPT ![t].argc = argc.argc, ![t].called = TRUE]
                /\ pc' = [pc EXCEPT ![t] = "CallApp"]
    /\ UNCHANGED << reserved, files, g_app_loads, cr3, ctx_cr3, task_maps, tt,
                    first_load, launches, term >>
    /\ UNCHANGED << argsVars, loopVars >>

\* the running program faults in one more page of its demand-paging range
Child_DemandPage(t) ==
    /\ pc[t] = "CallApp"
    /\ dpaging[t].end < dpaging[t].begin + MaxDemand * kPageBytes
    /\ LET r == SetupPageMaps(mem, cr3[t], dpaging[t].end, 1)
       IN  /\ r.err = "kSuccess"
           /\ SetMem(r.m)
    /\ dpaging' = [dpaging EXCEPT ![t].end = @ + kPageBytes]
    /\ UNCHANGED << reserved, files, g_app_loads, cr3, ctx_cr3, pc, lv, task_files,
                    task_maps, tt, first_load, launches, term >>
    /\ UNCHANGED << argsVars, loopVars >>

\* the running program maps a file: one more entry of task.FileMaps()
Child_MapFile(t) ==
    /\ pc[t] = "CallApp"
    /\ task_maps[t] = 0
    /\ task_maps' = [task_maps EXCEPT ![t] = 1]
    /\ UNCHANGED << reserved, files, g_app_loads, pml4s, owned, shared, cr3, ctx_cr3,
                    pc, lv, task_files, dpaging, tt, first_load, launches,
                    term >>
    /\ UNCHANGED << argsVars, loopVars >>

\* the program exits: CallApp returns ret
Child_Exit(t, ret) ==
    /\ pc[t] = "CallApp"
    /\ rd[t].st = "none"
    /\ lv' = [lv EXCEPT ![t].ret = ret]
    /\ pc' = [pc EXCEPT ![t] = "Cleanup"]
    /\ UNCHANGED << reserved, files, g_app_loads, pml4s, owned, shared, cr3, ctx_cr3,
                    task_files, task_maps, dpaging, tt, first_load, launches,
                    term >>
    /\ UNCHANGED << argsVars, loopVars >>

\* FreePML4 that resets cr3 but forgets FreePageMap
FreePML4_KeepRoot(m, root) == [ m |-> m, err |-> "kSuccess" ]

\* FreePML4 (terminal.cpp:151-157): the page tables and the error
FreePML4(m, root) == [ m |-> FreePageMap(m, root), err |-> "kSuccess" ]

\* ExecuteFile, terminal.cpp:522-535, with the answer ok of CleanPageMaps
\* and the outcome ub of a use of the null window_ in Print, if there is one
ExecuteFile_Cleanup(t, ok, ub) ==
    /\ pc[t] = "Cleanup"
    /\ task_files' = [task_files EXCEPT ![t] = 0]
    /\ task_maps' = [task_maps EXCEPT ![t] = 0]
    /\ term' = [term EXCEPT ![t] =
                  PrintStr(@, S_app_exited \o Dec(lv[t].ret) \o S_nl)]
    /\ ub \in Outcomes(term'[t])
    /\ LET c == CleanPageMaps(mem, cr3[t], ok)
           fr == FreePML4(c.m, ctx_cr3[t])
       IN  IF ub = "fault"
           THEN UNCHANGED << pml4s, owned, shared, lv, cr3, ctx_cr3 >>
           ELSE IF c.err # "kSuccess"
           THEN /\ SetMem(c.m)
                /\ lv' = [lv EXCEPT ![t].err = c.err]
                /\ UNCHANGED << cr3, ctx_cr3 >>
           ELSE /\ SetMem(fr.m)
                /\ ctx_cr3' = [ctx_cr3 EXCEPT ![t] = 0]
                /\ cr3' = [cr3 EXCEPT ![t] = 0]
                /\ lv' = [lv EXCEPT ![t].err = fr.err]
    /\ pc' = [pc EXCEPT ![t] = IF ub = "fault" THEN "fault" ELSE "ExecRet"]
    /\ UNCHANGED << reserved, files, g_app_loads, dpaging, tt, first_load, launches >>
    /\ UNCHANGED << argsVars, loopVars >>

\* ExecuteFile has returned lv[t].err to its caller
ExecuteFile_Return(t) ==
    /\ pc[t] = "ExecRet"
    /\ pc' = [pc EXCEPT ![t] = "idle"]
    /\ lv' = [lv EXCEPT ![t] = [LV0 EXCEPT !.failed = lv[t].failed]]
    /\ UNCHANGED << reserved, files, g_app_loads, pml4s, owned, shared, cr3, ctx_cr3,
                    task_files, task_maps, dpaging, tt, first_load, launches,
                    term >>
    /\ UNCHANGED << argsVars, loopVars >>

\* the file under a directory entry is overwritten on storage
OverwriteFile(e, img) ==
    /\ \A u \in Tasks : pc[u] = "idle"
    /\ img # files[e]
    /\ files' = [files EXCEPT ![e] = img]
    /\ UNCHANGED << reserved, g_app_loads, pml4s, owned, shared, cr3, ctx_cr3,
                    pc, lv, task_files, task_maps, dpaging, tt, first_load,
                    launches, term >>
    /\ UNCHANGED << argsVars, loopVars >>

--------------------------------------------------------------------------
\* The states before anything runs

NoResult == [ArgState0 EXCEPT !.err = "not called"]

ArgsIdle ==
    /\ mavIn = [ command |-> << >>, first_arg |-> NullStr ]
    /\ mavOut = NoResult

TT0 == [ show_window |-> TRUE, window_isactive |-> FALSE,
         parent |-> 0,      \* the task whose linebuf_ data points into
         arg_off |-> 0,     \* data = &linebuf_[arg_off] (0: nullptr)
         after |-> "loop",  \* where InputKey was called from
         intr |-> TRUE,     \* the task's interrupt flag (cli clears, sti sets)
         blink_draws |-> 0 ] \* DrawArea messages sent for the cursor blink

LaunchIdle ==
    /\ files = [ p |-> "A", q |-> "Dyn" ]
    /\ g_app_loads = << >>
    /\ pml4s = {}
    /\ owned = [r \in Roots |-> {}]
    /\ shared = [r \in Roots |-> {}]
    /\ reserved \in 0..TotalFrames
    /\ cr3 = [t \in Tasks |-> 0]
    /\ ctx_cr3 = [t \in Tasks |-> 0]
    /\ lv = [t \in Tasks |-> LV0]
    /\ task_files = [t \in Tasks |-> 0]
    /\ task_maps = [t \in Tasks |-> 0]
    /\ dpaging = [t \in Tasks |-> [ begin |-> 0, end |-> 0, fmap_end |-> 0 ]]
    /\ tt = [t \in Tasks |-> TT0]
    /\ first_load = << >>
    /\ launches = 0

\* no Read call in progress, none returned
RD0 == [ st |-> "none", ret |-> -1, buf |-> NUL, calls |-> 0 ]

\* nothing entered, no history key pressed
User0 == [ entered |-> << >>, ups |-> 0, snap |-> << >> ]

LoopIdle ==
    /\ msgq = [t \in Tasks |-> << >>]
    /\ timers = [t \in Tasks |-> 0]
    /\ sent = 0
    /\ rd = [t \in Tasks |-> RD0]
    /\ dequeued = [t \in Tasks |-> 0]
    /\ user = User0

--------------------------------------------------------------------------
\* Spec: the process launcher.  The tasks call ExecuteFile one at a time,
\* on either directory entry, with or without arguments.

\* a tail of n one-letter arguments
ArgTail(n) == [i \in 1..(2 * n - 1) |-> IF i % 2 = 1 THEN "a" ELSE " "]

LaunchArgs == { NullStr, ArgTail(2), ArgTail(argv_len) }

Init ==
    /\ ArgsIdle
    /\ LaunchIdle
    /\ LoopIdle
    /\ pc = [t \in Tasks |-> "idle"]
    /\ term = [t \in Tasks |-> NewTerminal(TRUE)]

\* the tasks that launch programs
Launchers == {1}

Launch(t) ==
    /\ \A u \in Tasks \ {t} : pc[u] = "idle"
    /\ \E f \in Entries, first_arg \in LaunchArgs :
          ExecuteFile_Call(t, f, << f >>, first_arg)

Next ==
    \/ \E t \in Launchers : Launch(t)
    \/ \E t \in Launchers : LoadApp_Setup(t)
    \/ \E t \in Launchers : LoadApp_Load(t)
    \/ \E t \in Launchers : LoadApp_Second(t)
    \/ \E t \in Launchers : ExecuteFile_Args(t)
    \/ \E t \in Launchers : Child_DemandPage(t)
    \/ \E t \in Launchers : Child_MapFile(t)
    \/ \E t \in Launchers, ret \in ExitCodes : Child_Exit(t, ret)
    \/ \E t \in Launchers, ok \in BOOLEAN, ub \in UB :
          ExecuteFile_Cleanup(t, ok, ub)
    \/ \E t \in Launchers : ExecuteFile_Return(t)
    \/ \E e \in Entries : \E img \in Contents[e] : OverwriteFile(e, img)

Spec == Init /\ [][Next]_vars

--------------------------------------------------------------------------
\* Claims about the process launcher, checked under Spec

\* the frames a space holds: its root, its tables and the pages it owns
FramesOf(r) ==
    IF r = 0 THEN 0
    ELSE (IF r \in pml4s THEN 1 ELSE 0) + Cardinality(owned[r])
         + TableFrames(owned, shared, r)

\* the launch of task t was a second launch: its directory entry had been
\* loaded and cached before ExecuteFile was called, and SetupPML4 succeeded
SecondLaunch(t) == lv[t].cached /\ lv[t].temp_pml4 # 0

\* C1: a launch of a directory entry that an earlier launch loaded uses the
\* entry point and the high-water mark the first load recorded, calls
\* fat::LoadFile not at all, and builds its address space only by mapping the
\* cached space's pages (it owns no page when LoadApp returns).
C1_SecondLaunchFromCache ==
    \A t \in Tasks :
        SecondLaunch(t) =>
            /\ lv[t].hit
            /\ lv[t].loaded = "none"
            /\ lv[t].file \in DOMAIN first_load
            /\ lv[t].app_load.entry = first_load[lv[t].file].entry
            /\ lv[t].app_load.vaddr_end = first_load[lv[t].file].vaddr_end
            /\ pc[t] = "ExecArgs" =>
                  /\ owned[cr3[t]] = {}
                  /\ shared[cr3[t]] =
                        owned[g_app_loads[lv[t].file].pml4]
                        \cup shared[g_app_loads[lv[t].file].pml4]

\* a second launch has reached CallApp
C1_Witness ==
    \E t \in Tasks : SecondLaunch(t) /\ pc[t] = "CallApp" /\ lv[t].hit

\* a launch failed before control transfer and ExecuteFile has returned
FailedLaunch(t) ==
    pc[t] = "ExecRet" /\ ~lv[t].called /\ lv[t].err # "kSuccess"

\* C3: when a launch fails before control transfer, the entry point was not
\* called, every root the launch allocated is released, the allocated frames
\* are those of before the call, Context().cr3 is 0 and the kernel table is
\* active.
C3_FailedLaunchLeavesNothing ==
    \A t \in Tasks :
        FailedLaunch(t) =>
            /\ ~lv[t].called
            /\ lv[t].mapped \cap pml4s = {}
            /\ UsedFrames(mem) = lv[t].before
            /\ ctx_cr3[t] = 0
            /\ cr3[t] = 0

\* the image's type is not ET_EXEC, or its first PT_LOAD header (if any) has
\* a virtual address below the canonical boundary
BadFormat(ehdr) ==
    \/ ehdr.e_type # "ET_EXEC"
    \/ ~ \E i \in 1..Len(ehdr.phdr) : ehdr.phdr[i].p_type = "PT_LOAD"
    \/ \E i \in 1..Len(ehdr.phdr) :
          /\ ehdr.phdr[i].p_type = "PT_LOAD"
          /\ \A j \in 1..(i - 1) : ehdr.phdr[j].p_type # "PT_LOAD"
          /\ ehdr.phdr[i].p_vaddr < UserBase

\* C4: once LoadElf has run on an image with the ELF magic whose type is not
\* ET_EXEC or whose first loadable segment lies below the boundary (or is
\* missing), the error is kInvalidFormat, the space it ran in owns no page
\* and no memcpy of a segment was made.
C4_InvalidFormatBeforeMapping ==
    \A t \in Tasks :
        ( /\ pc[t] \in {"LoadApp2", "ExecArgs", "CallApp", "Cleanup", "ExecRet"}
          /\ lv[t].loaded # "none"
          /\ Images[lv[t].loaded].magic
          /\ BadFormat(Images[lv[t].loaded]) ) =>
            /\ pc[t] = "ExecRet"
            /\ lv[t].err = "kInvalidFormat"
            /\ owned[lv[t].temp_pml4] = {}
            /\ lv[t].copies = << >>
            /\ lv[t].file \notin DOMAIN g_app_loads

\* LoadElf has refused an image whose first PT_LOAD header is low although a
\* later one is high
C4_Witness ==
    \E t \in Tasks :
        /\ pc[t] = "ExecRet"
        /\ lv[t].loaded = "Low"
        /\ lv[t].err = "kInvalidFormat"

\* a launch reached CallApp and ExecuteFile has returned
ReturnedLaunch(t) == pc[t] = "ExecRet" /\ lv[t].called

C6_CleanupAlwaysCompletes ==
    \A t \in Tasks :
        ReturnedLaunch(t) =>
            /\ task_files[t] = 0
            /\ task_maps[t] = 0
            /\ owned[lv[t].app_load.pml4] = {}
            /\ shared[lv[t].app_load.pml4] = {}
            /\ lv[t].app_load.pml4 \notin pml4s
            /\ ctx_cr3[t] = 0
            /\ cr3[t] = 0

\* C8: an entry of the launch image cache, once inserted, stays as it is: no
\* step removes it or changes its entry point, its high-water mark or its
\* owning space; the owning space stays allocated with its pages; and a
\* launch of a cached directory entry runs the cached layout whatever the
\* file now holds.
C8_CacheStep ==
    \A f \in DOMAIN g_app_loads :
        /\ f \in DOMAIN g_app_loads'
        /\ g_app_loads'[f] = g_app_loads[f]
        /\ g_app_loads[f].pml4 \in pml4s'
        /\ owned'[g_app_loads[f].pml4] = owned[g_app_loads[f].pml4]

C8_CacheState ==
    /\ \A f \in DOMAIN g_app_loads :
          /\ g_app_loads[f] = first_load[f]
          /\ g_app_loads[f].pml4 \in pml4s
          /\ \A t \in Tasks : g_app_loads[f].pml4 = ctx_cr3[t] =>
                                 pc[t] \notin {"Cleanup"}
    /\ \A t \in Tasks :
          (SecondLaunch(t) /\ pc[t] = "CallApp") =>
              lv[t].app_load.entry = g_app_loads[lv[t].file].entry

C8_CacheMonotonic == [][C8_CacheStep]_vars /\ []C8_CacheState

\* a cached entry is running although the file under it now holds an image
\* with another entry point
C8_Witness ==
    \E t \in Tasks :
        /\ SecondLaunch(t)
        /\ pc[t] = "CallApp"
        /\ Images[files[lv[t].file]].magic
        /\ Images[files[lv[t].file]].e_entry # lv[t].app_load.entry

--------------------------------------------------------------------------
\* SpecArgs: MakeArgVector called once, with the bounds ExecuteFile passes,
\* on a command and a tail drawn from short and long words, few and many

\* the most words a tail holds
MaxTailWords == 33
\* how far below and above argbuf_len the long words reach
LenSlack == 2

\* n words of w letters, with blanks in front of each
Words(n, w) ==
    [i \in 1..(n * (w + 2)) |-> IF (i - 1) % (w + 2) < 2 THEN " " ELSE "a"]

LongLens == (argbuf_len - LenSlack)..(argbuf_len + LenSlack)

ArgCommands == { Rep("c", n) : n \in {1, 2} \cup LongLens }

ArgTails ==
    {NullStr} \cup { Words(n, 1) : n \in 0..MaxTailWords }
              \cup { Words(1, n - 4) : n \in LongLens }
              \cup { Words(2, (argbuf_len \div 2) - 3 + n) : n \in 0..LenSlack }

InitArgs ==
    /\ mavIn \in [ command : ArgCommands, first_arg : ArgTails ]
    /\ mavOut = NoResult
    /\ LaunchIdle
    /\ reserved = 0
    /\ LoopIdle
    /\ pc = [t \in Tasks |-> "idle"]
    /\ term = [t \in Tasks |-> NewTerminal(TRUE)]

MakeArgVector_Call ==
    /\ mavOut = NoResult
    /\ mavOut' = MakeArgVector(mavIn.command, mavIn.first_arg,
                               argv_len, argbuf_len)
    /\ UNCHANGED << mavIn, launchVars, loopVars, pc, term, tt >>

NextArgs == MakeArgVector_Call

SpecArgs == InitArgs /\ [][NextArgs]_vars

\* the tokens of a call, by position: the command, then the maximal runs of
\* non-blank characters of the tail
TokStarts(s) ==
    IF s = NullStr THEN {}
    ELSE {i \in 1..Len(s) : ~IsSpace(s[i]) /\ (i = 1 \/ IsSpace(s[i - 1]))}

TokenCount(in) == 1 + Cardinality(TokStarts(in.first_arg))

\* the bytes the tokens need when packed, each with its NUL
PackedBytes(in) ==
    Len(in.command) + TokenCount(in)
    + (IF in.first_arg = NullStr THEN 0
       ELSE Cardinality({i \in 1..Len(in.first_arg) :
                            ~IsSpace(in.first_arg[i])}))

\* the i-th token (i = 1: the command)
Token(in, i) ==
    IF i = 1 THEN in.command
    ELSE LET s == in.first_arg
             b == CHOOSE x \in TokStarts(s) :
                     Cardinality({y \in TokStarts(s) : y < x}) = i - 2
             e == MinOf({x \in b..Len(s) :
                           x = Len(s) \/ IsSpace(s[x + 1])})
         IN  SubSeq(s, b, e)

--------------------------------------------------------------------------
\* SpecTerm: a user at the keyboard of the first terminal.  The user enters
\* commands that name no file, the i-th of them beginning with the i-th
\* letter, corrects them with Backspace and walks the history with the
\* arrow keys; every key is one call of InputKey.

\* how many commands the user enters
MaxCommands == 8
\* how many arrow keys the user presses after a command
MaxArrows == 10

Letters == << "a", "b", "c", "d", "e", "f", "g", "h", "i", "j" >>

\* the commands the user may enter as the i-th
CommandsAt(i) == { << Letters[i] >>, << Letters[i], "z" >> }

\* the characters of the line buffer before linebuf_index_
TypedLine(T) == SubSeq(T.linebuf_, 1, T.linebuf_index_)

IsPrefix(a, b) == Len(a) <= Len(b) /\ SubSeq(b, 1, Len(a)) = a

\* what the line editor shows of the history: the line, the index, the column
Shown(T) == << CStr(T.linebuf_, 0), T.linebuf_index_, T.cmd_history_index_,
               T.cursor_x >>

InitTerm ==
    /\ ArgsIdle
    /\ LaunchIdle
    /\ reserved = 0
    /\ LoopIdle
    /\ pc = [t \in Tasks |-> "idle"]
    /\ term = [t \in Tasks |-> NewTerminal(TRUE)]

TermRest == << argsVars, launchVars, msgq, timers, sent, rd, dequeued, pc, tt >>

\* the user types the next character of a command
Key_Char(c) ==
    /\ Len(user.entered) < MaxCommands
    /\ user.ups <= 0
    /\ \E cmd \in CommandsAt(Len(user.entered) + 1) :
          IsPrefix(TypedLine(term[1]) \o << c >>, cmd)
    /\ term' = [term EXCEPT ![1] = InputKey(@, 0, 0, c).T]
    /\ user' = [user EXCEPT !.ups = -1]
    /\ UNCHANGED TermRest

Key_Backspace ==
    /\ user.ups <= 0
    /\ term[1].linebuf_index_ > 0
    /\ term' = [term EXCEPT ![1] = InputKey(@, 0, 0, BS).T]
    /\ user' = [user EXCEPT !.ups = -1]
    /\ UNCHANGED TermRest

\* Enter on a complete new command
Key_Enter ==
    /\ Len(user.entered) < MaxCommands
    /\ user.ups <= 0
    /\ TypedLine(term[1]) \in CommandsAt(Len(user.entered) + 1)
    /\ LET r == InputKey(term[1], 0, 0, "\n")
       IN  /\ r.kind = "done"
           /\ term' = [term EXCEPT ![1] = r.T]
    /\ user' = [ entered |-> Append(user.entered, TypedLine(term[1])),
                 ups |-> 0, snap |-> << >> ]
    /\ UNCHANGED TermRest

\* the up arrow, pressed after a command and nothing else but up arrows
Key_Up ==
    /\ user.ups \in 0..(MaxArrows - 1)
    /\ user.entered # << >>
    /\ term' = [term EXCEPT ![1] = InputKey(@, 0, kKeyUp, NUL).T]
    /\ user' = [user EXCEPT
                  !.ups = @ + 1,
                  !.snap = IF user.ups + 1 = MinOf({Len(user.entered), kHistory})
                           THEN Shown(term'[1]) ELSE @]
    /\ UNCHANGED TermRest

\* the down arrow ends the run of up arrows
Key_Down ==
    /\ user.ups # -1
    /\ term' = [term EXCEPT ![1] = InputKey(@, 0, kKeyDown, NUL).T]
    /\ user' = [user EXCEPT !.ups = -1, !.snap = << >>]
    /\ UNCHANGED TermRest

NextTerm ==
    \/ \E c \in {Letters[i] : i \in 1..Len(Letters)} \cup {"z"} : Key_Char(c)
    \/ Key_Backspace
    \/ Key_Enter
    \/ Key_Up
    \/ Key_Down

SpecTerm == InitTerm /\ [][NextTerm]_vars

\* C7: on a fresh terminal on which N distinct commands were entered (N in
\* 1..8), the k-th of N up arrows sets the line buffer to the k-th most
\* recent command, and every further up arrow leaves the line buffer, the
\* history index and the cursor column as the N-th left them.
C7_HistoryBack ==
    LET N == Len(user.entered)
        k == user.ups
    IN  /\ (N <= kHistory /\ k \in 1..N) =>
              CStr(term[1].linebuf_, 0) = user.entered[N - k + 1]
        /\ (N \in 1..kHistory /\ k > N) => Shown(term[1]) = user.snap

\* C7, amended: the history index is clamped at the depth of the ring, not
\* at the number of commands entered.  With M the smaller of N and 8, the
\* k-th up arrow (k <= M) sets the line buffer to the k-th most recent
\* command; when M < 8 every further up arrow up to the 8th moves to an
\* empty slot, so the line buffer is empty and the cursor in column 1; up
\* arrows after the 8th change nothing.
C7_HistoryBackRing ==
    LET N == Len(user.entered)
        k == user.ups
        M == MinOf({N, kHistory})
        T == term[1]
    IN  k >= 1 =>
          /\ T.cmd_history_index_ = MinOf({k, kHistory}) - 1
          /\ k <= M =>
                Shown(T) = << user.entered[N - k + 1],
                              Len(user.entered[N - k + 1]),
                              k - 1,
                              Len(user.entered[N - k + 1]) + 1 >>
          /\ (k > M /\ M < kHistory) =>
                Shown(T) = << << >>, 0, MinOf({k, kHistory}) - 1, 1 >>
          /\ (k > M /\ M = kHistory) => Shown(T) = user.snap

\* three commands entered and a fourth up arrow pressed: the line is empty
C7_Witness ==
    /\ Len(user.entered) = 3
    /\ user.ups = 4
    /\ CStr(term[1].linebuf_, 0) = << >>
    /\ user.snap[1] = user.entered[1]

--------------------------------------------------------------------------
\* The terminal task (TaskTerminal, terminal.cpp:619-695), the builtins that
\* read kernel state, and TerminalFileDescriptor::Read (terminal.cpp:700-735)

\* Message: the fields of the three kinds the terminal looks at
KeyMsg(press, ctrl, keycode, ascii) ==
    [ type |-> "kKeyPush", press |-> press, ctrl |-> ctrl,
      keycode |-> keycode, ascii |-> ascii, activate |-> FALSE ]
TimerMsg ==
    [ type |-> "kTimerTimeout", press |-> FALSE, ctrl |-> FALSE,
      keycode |-> 0, ascii |-> NUL, activate |-> FALSE ]
ActiveMsg(b) ==
    [ type |-> "kWindowActive", press |-> FALSE, ctrl |-> FALSE,
      keycode |-> 0, ascii |-> NUL, activate |-> b ]

Lower == << "a", "b", "c", "d", "e", "f", "g", "h", "i", "j", "k", "l", "m",
            "n", "o", "p", "q", "r", "s", "t", "u", "v", "w", "x", "y", "z" >>
Upper == << "A", "B", "C", "D", "E", "F", "G", "H", "I", "J", "K", "L", "M",
            "N", "O", "P", "Q", "R", "S", "T", "U", "V", "W", "X", "Y", "Z" >>

\* toupper
ToUpper(c) ==
    IF \E i \in 1..Len(Lower) : Lower[i] = c
    THEN Upper[CHOOSE i \in 1..Len(Lower) : Lower[i] = c]
    ELSE c

\* the USB keycode of the key that types c
KeyCodeOf(c) ==
    IF \E i \in 1..Len(Lower) : Lower[i] = c
    THEN 3 + (CHOOSE i \in 1..Len(Lower) : Lower[i] = c)
    ELSE IF c = "\n" THEN 40 ELSE IF c = " " THEN 44 ELSE 0

\* the directory entries in the order of the root directory
EntriesSeq == << "p", "q" >>

\* the bytes of a file as cat prints them
FileText(img) == IF Images[img].magic THEN << "E", "L", "F" >>
                 ELSE << "t", "x", "t" >>

\* the lines lspci prints, one for each device of pci::g_devices
PciLines == << << "0", "0", ":", "0", "0", ".", "0", "\n" >> >>

S_no_such_file_or_directory == << "N", "o", " ", "s", "u", "c", "h", " ", "f", "i", "l", "e", " ", "o", "r", " ", "d", "i", "r", "e", "c", "t", "o", "r", "y", ":", " " >>
S_no_such_file == << "n", "o", " ", "s", "u", "c", "h", " ", "f", "i", "l", "e", ":", " " >>
S_phys_used == << "P", "h", "y", "s", " ", "u", "s", "e", "d", " ", ":", " " >>
S_phys_total == << "P", "h", "y", "s", " ", "t", "o", "t", "a", "l", " ", ":", " " >>
S_frames == << " ", "f", "r", "a", "m", "e", "s", " ", "(" >>
S_mib == << " ", "M", "i", "B", ")", "\n" >>

\* Print(s) for each string of a sequence
RECURSIVE PrintAll(_, _)
PrintAll(T, ss) ==
    IF ss = << >> THEN T
    ELSE LET T1 == PrintStr(T, Head(ss))
         IN  IF T1 = T THEN PrintAll(T, Tail(ss)) ELSE PrintAll(T1, Tail(ss))

\* ListAllEntries (terminal.cpp:160-183) of the root directory
ListAllEntries(T) ==
    PrintAll(T, [i \in 1..(2 * Len(EntriesSeq)) |->
                    IF i % 2 = 1 THEN FormatName(EntriesSeq[(i + 1) \div 2])
                    ELSE S_nl])

\* the builtins lspci, ls, cat and memstat of ExecuteLine (terminal.cpp:
\* 361-425, 431-442) with the page tables m; at0 is the string a read
\* through a null first_arg finds
Builtin(T, command, first_arg, m, at0) ==
    LET null == first_arg = NullStr
        arg == IF null THEN at0 ELSE first_arg
        found == FindFile(arg)
        frames(n) == Dec(n) \o S_frames
                     \o Dec((n * kPageBytes) \div (1024 * 1024)) \o S_mib
    IN  CASE command = S_lspci -> PrintAll(T, PciLines)
          [] command = S_ls ->
               LET T1 == [T EXCEPT !.null_arg = @ \/ null]
               IN  IF arg = << >> THEN ListAllEntries(T1)
                   ELSE IF found.entry = NoEntry
                   THEN PrintAll(T1, << S_no_such_file_or_directory, arg,
                                        S_nl >>)
                   ELSE IF found.post_slash
                   THEN PrintAll(T1, << FormatName(found.entry),
                                        S_not_a_directory >>)
                   ELSE PrintAll(T1, << FormatName(found.entry), S_nl >>)
          [] command = S_cat ->
               LET T1 == [T EXCEPT !.null_arg = @ \/ null]
               IN  IF found.entry = NoEntry
                   THEN PrintStr(T1, S_no_such_file \o arg \o S_nl)
                   ELSE IF found.post_slash
                   THEN PrintAll(T1, << FormatName(found.entry),
                                        S_not_a_directory >>)
                   ELSE PrintChars(T1, FileText(files[found.entry]))
          [] command = S_memstat ->
               PrintAll(T, << S_phys_used \o frames(UsedFrames(m)),
                              S_phys_total \o frames(TotalFrames) >>)
          [] OTHER -> T

\* the tasks whose windows are in g_layer_task_map (terminal.cpp:627-631):
\* the tasks the keyboard and the window manager send messages to
Registered(t) ==
    pc[t] \notin {"none", "start", "idle"} /\ tt[t].show_window

\* a task that NewTask can still create
FreeTasks == {u \in Tasks : pc[u] = "none"}

\* what InputKey leaves to its caller in task t (r, see Done): the rest of
\* ExecuteLine and of InputKey, then on to `after`
Dispatch(t, r, after, ub, at0) ==
    LET T == IF r.kind = "builtin"
             THEN UseWindow(PrintStr(Builtin(r.T, r.command, r.first_arg,
                                             mem, at0), S_prompt))
             ELSE r.T
        to == IF ub = "fault" THEN "fault" ELSE after
        u == MinOf(FreeTasks)
    IN  /\ ub \in Outcomes(T)
        /\ term' = [term EXCEPT ![t] = T]
        /\ IF r.kind = "exec" /\ ub = "continue"
           THEN /\ ExecuteFile_Enter(t, r.file, r.command, r.first_arg)
                /\ tt' = [tt EXCEPT ![t].after = after]
           ELSE /\ IF r.kind = "spawn"
                   THEN /\ FreeTasks # {}
                        /\ pc' = [pc EXCEPT ![t] = to, ![u] = "start"]
                        /\ tt' = [tt EXCEPT ![u] =
                                    [TT0 EXCEPT !.parent = t,
                                                !.arg_off = r.arg_off]]
                   ELSE /\ pc' = [pc EXCEPT ![t] = to]
                        /\ tt' = tt
                /\ UNCHANGED launchVars

\* TaskTerminal, terminal.cpp:620-632: the terminal is constructed
TaskTerminal_Start(t) ==
    /\ pc[t] = "start"
    /\ LET show_window == tt[t].arg_off = 0
       IN  /\ term' = [term EXCEPT ![t] = NewTerminal(show_window)]
           /\ tt' = [tt EXCEPT ![t].show_window = show_window]
           /\ pc' = [pc EXCEPT ![t] = IF show_window THEN "timer" ELSE "feed"]
    /\ UNCHANGED << argsVars, launchVars, loopVars >>

\* InputKey(0, 0, c) for every character of a string
RECURSIVE FeedChars(_, _)
FeedChars(T, s) ==
    IF s = << >> THEN T
    ELSE LET T1 == InputKey(T, 0, 0, Head(s)).T
         IN  IF T1 = T THEN FeedChars(T, Tail(s)) ELSE FeedChars(T1, Tail(s))

\* TaskTerminal, terminal.cpp:634-641: the command line, read where data
\* points (into the parent's linebuf_), is typed in, then Enter
TaskTerminal_Feed(t, ub, at0) ==
    /\ pc[t] = "feed"
    /\ LET command_line == CStr(term[tt[t].parent].linebuf_, tt[t].arg_off)
           T1 == FeedChars(term[t], command_line)
       IN  Dispatch(t, InputKey(T1, 0, 0, "\n"), "timer", ub, at0)
    /\ UNCHANGED << argsVars, loopVars >>

\* TaskTerminal, terminal.cpp:643-648: the first blink timer
TaskTerminal_Timer(t) ==
    /\ pc[t] = "timer"
    /\ timers' = [timers EXCEPT ![t] = @ + 1]
    /\ tt' = [tt EXCEPT ![t].window_isactive = FALSE]
    /\ pc' = [pc EXCEPT ![t] = "loop"]
    /\ UNCHANGED << argsVars, launchVars, term, msgq, sent, rd, dequeued,
                    user >>

\* Terminal::BlinkCursor (terminal.cpp:256-261)
BlinkCursor(T) == [T EXCEPT !.cursol_visible_ = ~@]

\* an event loop that blinks the cursor of every terminal with a window,
\* active or not
Loop_Step_BlinkAlways(t, ub, at0) ==
    /\ pc[t] = "loop"
    /\ IF msgq[t] = << >>
       THEN /\ pc' = [pc EXCEPT ![t] = "asleep"]
            /\ tt' = [tt EXCEPT ![t].intr = FALSE]
            /\ ub = "continue"
            /\ UNCHANGED << launchVars, term, msgq, dequeued, timers >>
       ELSE LET msg == Head(msgq[t])
            IN  /\ msgq' = [msgq EXCEPT ![t] = Tail(@)]
                /\ dequeued' = [dequeued EXCEPT ![t] = (@ + 1) % 2]
                /\ CASE msg.type = "kTimerTimeout" ->
                          /\ timers' = [timers EXCEPT ![t] = @ + 1]
                          /\ IF tt[t].show_window
                             THEN /\ term' = [term EXCEPT
                                                ![t] = BlinkCursor(@)]
                                  /\ tt' = [tt EXCEPT
                                              ![t].blink_draws = @ + 1]
                             ELSE UNCHANGED << term, tt >>
                          /\ ub = "continue"
                          /\ UNCHANGED << launchVars, pc >>
                    [] msg.type = "kKeyPush" /\ msg.press ->
                          /\ Dispatch(t, InputKey(term[t],
                                                  IF msg.ctrl THEN 1 ELSE 0,
                                                  msg.keycode, msg.ascii),
                                      "loop", ub, at0)
                          /\ UNCHANGED timers
                    [] msg.type = "kWindowActive" ->
                          /\ tt' = [tt EXCEPT ![t].window_isactive =
                                                 msg.activate]
                          /\ ub = "continue"
                          /\ UNCHANGED << launchVars, pc, term, timers >>
                    [] OTHER ->
                          /\ ub = "continue"
                          /\ UNCHANGED << launchVars, pc, term, tt, timers >>
    /\ UNCHANGED << argsVars, sent, rd, user >>

\* TaskTerminal, terminal.cpp:650-694: one turn of the event loop
Loop_Step(t, ub, at0) ==
    /\ pc[t] = "loop"
    /\ IF msgq[t] = << >>
       THEN /\ pc' = [pc EXCEPT ![t] = "asleep"]
            /\ tt' = [tt EXCEPT ![t].intr = FALSE]
            /\ ub = "continue"
            /\ UNCHANGED << launchVars, term, msgq, dequeued, timers >>
       ELSE LET msg == Head(msgq[t])
            IN  /\ msgq' = [msgq EXCEPT ![t] = Tail(@)]
                /\ dequeued' = [dequeued EXCEPT ![t] = (@ + 1) % 2]
                /\ CASE msg.type = "kTimerTimeout" ->
                          /\ timers' = [timers EXCEPT ![t] = @ + 1]
                          /\ IF tt[t].show_window /\ tt[t].window_isactive
                             THEN /\ term' = [term EXCEPT
                                                ![t] = BlinkCursor(@)]
                                  /\ tt' = [tt EXCEPT
                                              ![t].blink_draws = @ + 1]
                             ELSE UNCHANGED << term, tt >>
                          /\ ub = "continue"
                          /\ UNCHANGED << launchVars, pc >>
                    [] msg.type = "kKeyPush" /\ msg.press ->
                          /\ Dispatch(t, InputKey(term[t],
                                                  IF msg.ctrl THEN 1 ELSE 0,
                                                  msg.keycode, msg.ascii),
                                      "loop", ub, at0)
                          /\ UNCHANGED timers
                    [] msg.type = "kWindowActive" ->
                          /\ tt' = [tt EXCEPT ![t].window_isactive =
                                                 msg.activate]
                          /\ ub = "continue"
                          /\ UNCHANGED << launchVars, pc, term, timers >>
                    [] OTHER ->
                          /\ ub = "continue"
                          /\ UNCHANGED << launchVars, pc, term, tt, timers >>
    /\ UNCHANGED << argsVars, sent, rd, user >>

\* a wake-up that leaves the interrupt flag as Sleep was called with it
Loop_Wake_NoSti(t) ==
    /\ pc[t] = "asleep"
    /\ msgq[t] # << >>
    /\ pc' = [pc EXCEPT ![t] = "loop"]
    /\ UNCHANGED << argsVars, launchVars, loopVars, term, tt >>

\* task.Sleep() returns once a message has been sent to the task; sti
\* (terminal.cpp:654-656)
Loop_Wake(t) ==
    /\ pc[t] = "asleep"
    /\ msgq[t] # << >>
    /\ pc' = [pc EXCEPT ![t] = "loop"]
    /\ tt' = [tt EXCEPT ![t].intr = TRUE]
    /\ UNCHANGED << argsVars, launchVars, loopVars, term >>

\* ExecuteFile has returned into ExecuteLine (terminal.cpp:454-458), which
\* returns into InputKey (terminal.cpp:294-296)
ExecuteLine_Resume(t, ub) ==
    /\ pc[t] = "ExecRet"
    /\ term' = [term EXCEPT ![t] = AfterExecuteFile(@, lv[t].err)]
    /\ ub \in Outcomes(term'[t])
    /\ pc' = [pc EXCEPT ![t] = IF ub = "fault" THEN "fault" ELSE tt[t].after]
    /\ lv' = [lv EXCEPT ![t] = [LV0 EXCEPT !.failed = lv[t].failed]]
    /\ UNCHANGED << reserved, files, g_app_loads, pml4s, owned, shared, cr3, ctx_cr3,
                    task_files, task_maps, dpaging, first_load, launches >>
    /\ UNCHANGED << argsVars, loopVars, tt >>

\* how many times a program calls Read
MaxReads == 1

\* the running program reads its standard input: Read is entered
Child_Read(t) ==
    /\ pc[t] = "CallApp"
    /\ rd[t].st = "none"
    /\ rd[t].calls < MaxReads
    /\ rd' = [rd EXCEPT ![t] = [ st |-> "run", ret |-> -1, buf |-> NUL,
                                 calls |-> @.calls + 1 ]]
    /\ UNCHANGED << argsVars, launchVars, pc, tt, term, msgq, timers, sent,
                    dequeued, user >>

\* Read that takes every Control-modified key for the end of input
\* (no test of the keycode)
Read_Step_AnyCtrl(t, ub) ==
    /\ pc[t] = "CallApp"
    /\ rd[t].st = "run"
    /\ IF msgq[t] = << >>
       THEN /\ rd' = [rd EXCEPT ![t].st = "sleep"]
            /\ tt' = [tt EXCEPT ![t].intr = FALSE]
            /\ ub = "continue"
            /\ UNCHANGED << term, msgq, dequeued, pc >>
       ELSE LET msg == Head(msgq[t])
            IN  /\ msgq' = [msgq EXCEPT ![t] = Tail(@)]
                /\ dequeued' = [dequeued EXCEPT ![t] = (@ + 1) % 2]
                /\ tt' = [tt EXCEPT ![t].intr = TRUE]
                /\ IF msg.type # "kKeyPush" \/ ~msg.press
                   THEN /\ ub = "continue"
                        /\ UNCHANGED << term, rd, pc >>
                   ELSE IF msg.ctrl
                   THEN /\ term' = [term EXCEPT ![t] =
                              PrintStr(@, IF msg.ascii = NUL THEN << "^" >>
                                          ELSE << "^", ToUpper(msg.ascii) >>)]
                        /\ ub \in Outcomes(term'[t])
                        /\ pc' = [pc EXCEPT ![t] =
                                    IF ub = "fault" THEN "fault" ELSE @]
                        /\ rd' = IF ub = "continue"
                                 THEN [rd EXCEPT ![t].st = "none",
                                                 ![t].ret = 0]
                                 ELSE rd
                   ELSE /\ term' = [term EXCEPT ![t] =
                                      PrintStr(@, << msg.ascii >>)]
                        /\ ub \in Outcomes(term'[t])
                        /\ pc' = [pc EXCEPT ![t] =
                                    IF ub = "fault" THEN "fault" ELSE @]
                        /\ rd' = IF ub = "continue"
                                 THEN [rd EXCEPT ![t].st = "none",
                                                 ![t].ret = 1,
                                                 ![t].buf = msg.ascii]
                                 ELSE [rd EXCEPT ![t].buf = msg.ascii]
    /\ UNCHANGED << argsVars, launchVars, timers, sent, user >>

\* TerminalFileDescriptor::Read (terminal.cpp:703-734): one turn of its loop
Read_Step(t, ub) ==
    /\ pc[t] = "CallApp"
    /\ rd[t].st = "run"
    /\ IF msgq[t] = << >>
       THEN /\ rd' = [rd EXCEPT ![t].st = "sleep"]
            /\ tt' = [tt EXCEPT ![t].intr = FALSE]
            /\ ub = "continue"
            /\ UNCHANGED << term, msgq, dequeued, pc >>
       ELSE LET msg == Head(msgq[t])
            IN  /\ msgq' = [msgq EXCEPT ![t] = Tail(@)]
                /\ dequeued' = [dequeued EXCEPT ![t] = (@ + 1) % 2]
                /\ tt' = [tt EXCEPT ![t].intr = TRUE]
                /\ IF msg.type # "kKeyPush" \/ ~msg.press
                   THEN /\ ub = "continue"
                        /\ UNCHANGED << term, rd, pc >>
                   ELSE IF msg.ctrl
                   THEN /\ term' = [term EXCEPT ![t] =
                              PrintStr(@, IF msg.ascii = NUL THEN << "^" >>
                                          ELSE << "^", ToUpper(msg.ascii) >>)]
                        /\ ub \in Outcomes(term'[t])
                        /\ pc' = [pc EXCEPT ![t] =
                                    IF ub = "fault" THEN "fault" ELSE @]
                        /\ rd' = IF ub = "continue" /\ msg.keycode = 7
                                 THEN [rd EXCEPT ![t].st = "none",
                                                 ![t].ret = 0]
                                 ELSE rd
                   ELSE /\ term' = [term EXCEPT ![t] =
                                      PrintStr(@, << msg.ascii >>)]
                        /\ ub \in Outcomes(term'[t])
                        /\ pc' = [pc EXCEPT ![t] =
                                    IF ub = "fault" THEN "fault" ELSE @]
                        /\ rd' = IF ub = "continue"
                                 THEN [rd EXCEPT ![t].st = "none",
                                                 ![t].ret = 1,
                                                 ![t].buf = msg.ascii]
                                 ELSE [rd EXCEPT ![t].buf = msg.ascii]
    /\ UNCHANGED << argsVars, launchVars, timers, sent, user >>

\* a Sleep in Read that a message sent to an empty queue does not end
Read_Wake_Lost(t) ==
    /\ pc[t] = "CallApp"
    /\ rd[t].st = "sleep"
    /\ Len(msgq[t]) > 1
    /\ rd' = [rd EXCEPT ![t].st = "run"]
    /\ UNCHANGED << argsVars, launchVars, pc, tt, term, msgq, timers, sent,
                    dequeued, user >>

\* task_.Sleep() in Read returns once a message has been sent to the task;
\* continue, with no sti (terminal.cpp:707-708)
Read_Wake(t) ==
    /\ pc[t] = "CallApp"
    /\ rd[t].st = "sleep"
    /\ msgq[t] # << >>
    /\ rd' = [rd EXCEPT ![t].st = "run"]
    /\ UNCHANGED << argsVars, launchVars, pc, tt, term, msgq, timers, sent,
                    dequeued, user >>

--------------------------------------------------------------------------
\* SpecLoop: the first terminal task from its start, a user who enters
\* command lines at its prompt and presses keys, the window manager, the
\* timer, and the tasks and programs the command lines start.

\* how many times the user, the window manager and the timer act
MaxSent == 2
\* how long a queue a single message is still added to
MaxQueue == 1

\* the command lines the user enters
Lines == { S_noterm, S_noterm \o << " ", "p" >>, << "p" >> }

\* the single keys the user presses or releases
Keys == { KeyMsg(TRUE, TRUE, 7, "d"), KeyMsg(TRUE, TRUE, 6, "c"),
          KeyMsg(TRUE, FALSE, KeyCodeOf("x"), "x"),
          KeyMsg(FALSE, FALSE, KeyCodeOf("x"), "x"),
          KeyMsg(FALSE, TRUE, 7, "d") }

InitLoop ==
    /\ ArgsIdle
    /\ LaunchIdle
    /\ reserved = 0
    /\ LoopIdle
    /\ pc = [t \in Tasks |-> IF t = 1 THEN "start" ELSE "none"]
    /\ term = [t \in Tasks |-> NewTerminal(TRUE)]

\* the key messages of a typed line: one press per character, then Enter
RECURSIVE LineMsgs(_)
LineMsgs(line) ==
    IF line = << >>
    THEN << KeyMsg(TRUE, FALSE, KeyCodeOf("\n"), "\n") >>
    ELSE << KeyMsg(TRUE, FALSE, KeyCodeOf(Head(line)), Head(line)) >>
             \o LineMsgs(Tail(line))

\* the user types a command line and Enter at the prompt of a terminal
\* (a noterm line only while the task it starts is among Tasks)
Env_TypeLine(t, line) ==
    /\ Registered(t)
    /\ pc[t] \in {"loop", "asleep"}
    /\ msgq[t] = << >>
    /\ Head(line) = "n" => FreeTasks # {}
    /\ sent < MaxSent
    /\ sent' = sent + 1
    /\ msgq' = [msgq EXCEPT ![t] = LineMsgs(line)]
    /\ UNCHANGED << argsVars, launchVars, pc, tt, term, timers, rd, dequeued,
                    user >>

\* the user presses or releases one key
Env_Key(t, k) ==
    /\ Registered(t)
    /\ Len(msgq[t]) < MaxQueue
    /\ sent < MaxSent
    /\ sent' = sent + 1
    /\ msgq' = [msgq EXCEPT ![t] = Append(@, k)]
    /\ UNCHANGED << argsVars, launchVars, pc, tt, term, timers, rd, dequeued,
                    user >>

\* the window manager tells a terminal that its window is active or not
Env_WindowActive(t, b) ==
    /\ Registered(t)
    /\ Len(msgq[t]) < MaxQueue
    /\ sent < MaxSent
    /\ sent' = sent + 1
    /\ msgq' = [msgq EXCEPT ![t] = Append(@, ActiveMsg(b))]
    /\ UNCHANGED << argsVars, launchVars, pc, tt, term, timers, rd, dequeued,
                    user >>

\* a blink timer of the task expires
Timer_Fire(t) ==
    /\ timers[t] > 0
    /\ Len(msgq[t]) < MaxQueue
    /\ sent < MaxSent
    /\ sent' = sent + 1
    /\ timers' = [timers EXCEPT ![t] = @ - 1]
    /\ msgq' = [msgq EXCEPT ![t] = Append(@, TimerMsg)]
    /\ UNCHANGED << argsVars, launchVars, pc, tt, term, rd, dequeued, user >>

\* what a read through a null pointer may find as a string
AtNull == { << >>, << "?" >> }

NextLoop ==
    \/ \E t \in Tasks : TaskTerminal_Start(t)
    \/ \E t \in Tasks, ub \in UB, at0 \in AtNull : TaskTerminal_Feed(t, ub, at0)
    \/ \E t \in Tasks : TaskTerminal_Timer(t)
    \/ \E t \in Tasks, ub \in UB, at0 \in AtNull : Loop_Step(t, ub, at0)
    \/ \E t \in Tasks : Loop_Wake(t)
    \/ \E t \in Tasks : LoadApp_Setup(t)
    \/ \E t \in Tasks : LoadApp_Load(t)
    \/ \E t \in Tasks : LoadApp_Second(t)
    \/ \E t \in Tasks : ExecuteFile_Args(t)
    \/ \E t \in Tasks : Child_Read(t)
    \/ \E t \in Tasks, ub \in UB : Read_Step(t, ub)
    \/ \E t \in Tasks : Read_Wake(t)
    \/ \E t \in Tasks, ret \in ExitCodes : Child_Exit(t, ret)
    \/ \E t \in Tasks, ok \in BOOLEAN, ub \in UB : ExecuteFile_Cleanup(t, ok, ub)
    \/ \E t \in Tasks, ub \in UB : ExecuteLine_Resume(t, ub)
    \/ \E t \in Tasks, line \in Lines : Env_TypeLine(t, line)
    \/ \E t \in Tasks, k \in Keys : Env_Key(t, k)
    \/ \E t \in Tasks, b \in BOOLEAN : Env_WindowActive(t, b)
    \/ \E t \in Tasks : Timer_Fire(t)

SpecLoop == InitLoop /\ [][NextLoop]_vars

--------------------------------------------------------------------------
\* Claims about the terminal task and Read, checked under SpecLoop

\* a task that a noterm command line created, once its terminal exists
NotermTask(t) == tt[t].parent # 0 /\ pc[t] \notin {"none", "start"}

\* C9: every task spawned by a noterm command line has a terminal with its
\* window suppressed, gets through the command line it feeds itself to its
\* event loop, and its terminal never uses the window object it lacks.
C9_NotermWindowless ==
    \A t \in Tasks :
        NotermTask(t) =>
            /\ ~tt[t].show_window
            /\ ~term[t].show_window_
            /\ ~term[t].null_window
            /\ pc[t] # "fault"

\* Read of task t takes the message at the head of the queue in this step
ReadTakes(t) ==
    /\ pc[t] = "CallApp"
    /\ rd[t].st = "run"
    /\ msgq[t] # << >>
    /\ msgq'[t] = Tail(msgq[t])

\* Read of task t returns in this step
ReadReturns(t) == rd[t].st # "none" /\ rd'[t].st = "none"

\* what Read echoes for a Control-modified key
CtrlEcho(msg) == IF msg.ascii = NUL THEN << "^" >>
                 ELSE << "^", ToUpper(msg.ascii) >>

C10_ReadStep ==
    \A t \in Tasks :
        /\ ReadReturns(t) => ReadTakes(t)
        /\ ReadTakes(t) =>
              LET msg == Head(msgq[t])
                  key == msg.type = "kKeyPush" /\ msg.press
              IN  /\ ReadReturns(t) <=> key /\ (~msg.ctrl \/ msg.keycode = 7)
                  /\ rd'[t].ret = 0 <=> key /\ msg.ctrl /\ msg.keycode = 7
                  /\ rd'[t].ret = 1 <=> key /\ ~msg.ctrl
                  /\ key /\ msg.ctrl => term'[t] = PrintStr(term[t], CtrlEcho(msg))
                  /\ key /\ ~msg.ctrl =>
                        /\ term'[t] = PrintStr(term[t], << msg.ascii >>)
                        /\ rd'[t].buf = msg.ascii
                  /\ ~key => term'[t] = term[t] /\ rd'[t] = rd[t]

\* C10: Read takes the task's messages until it can return.  It returns 0
\* exactly on a key press with Control and keycode 7; any other key press
\* with Control is echoed and does not end the read; a key press without
\* Control is echoed, stored as one byte and Read returns 1; key releases
\* and messages that are not key messages never make Read return.
C10_ReadReturns == [][C10_ReadStep]_vars

\* a program's Read has returned 0 and the terminal shows the echo ^D
C10_Witness ==
    \E t \in Tasks :
        /\ pc[t] = "CallApp"
        /\ rd[t].calls > 0 /\ rd[t].st = "none" /\ rd[t].ret = 0
        /\ \E y \in 1..kRows, x \in 1..(kColumns - 1) :
              term[t].screen[y][x] = "^" /\ term[t].screen[y][x + 1] = "D"

--------------------------------------------------------------------------
\* SpecCmd: a user at the keyboard of the first terminal who types whole
\* command lines and presses Enter; every key is one call of InputKey, and
\* a line that names a file launches it (LoadApp and ExecuteFile as above).

\* how many lines the user enters
MaxEntered == 3

\* the command lines the user types
CmdLines ==
    { S_echo, S_echo \o << " " >>, S_echo \o << " ", "a", "b" >>,
      S_echo \o << " ", "a", " ", "b" >>, S_clear, S_ls,
      S_ls \o << " ", "p" >>, << "x" >>, << "x", "y", " ", "z" >>, << "p" >> }

InitCmd ==
    /\ ArgsIdle
    /\ LaunchIdle
    /\ reserved = 0
    /\ LoopIdle
    /\ pc = [t \in Tasks |-> "idle"]
    /\ term = [t \in Tasks |-> NewTerminal(TRUE)]

\* the user types a line at the prompt
Cmd_Type(line) ==
    /\ pc[1] = "idle"
    /\ Len(user.entered) < MaxEntered
    /\ term[1].linebuf_index_ = 0
    /\ term' = [term EXCEPT ![1] = FeedChars(@, line)]
    /\ UNCHANGED << argsVars, launchVars, loopVars, pc, tt >>

\* the user presses Enter
Cmd_Enter(ub, at0) ==
    /\ pc[1] = "idle"
    /\ Len(user.entered) < MaxEntered
    /\ Dispatch(1, InputKey(term[1], 0, 0, "\n"), "idle", ub, at0)
    /\ user' = [user EXCEPT !.entered = Append(@, TypedLine(term[1]))]
    /\ UNCHANGED << argsVars, msgq, timers, sent, rd, dequeued >>

NextCmd ==
    \/ \E line \in CmdLines : Cmd_Type(line)
    \/ \E ub \in UB, at0 \in AtNull : Cmd_Enter(ub, at0)
    \/ LoadApp_Setup(1)
    \/ LoadApp_Load(1)
    \/ LoadApp_Second(1)
    \/ ExecuteFile_Args(1)
    \/ \E ret \in ExitCodes : Child_Exit(1, ret)
    \/ \E ok \in BOOLEAN, ub \in UB : ExecuteFile_Cleanup(1, ok, ub)
    \/ \E ub \in UB : ExecuteLine_Resume(1, ub)

SpecCmd == InitCmd /\ [][NextCmd]_vars

\* Enter is pressed in this step, on the line typed
EnterStep == pc[1] = "idle" /\ Len(user'.entered) = Len(user.entered) + 1

\* the cursor and the character grid of a terminal
Display(T) == << T.screen, T.cursor_x, T.cursor_y >>

C11_EchoStep ==
    LET line == TypedLine(term[1])
        bare == line = S_echo
        t == IF bare THEN << >> ELSE SubSeq(line, Len(S_echo) + 2, Len(line))
        out == PrintStr(PrintStr(PrintStr(newline(term[1]), t), S_nl),
                        S_prompt)
    IN  (EnterStep /\ (bare \/ IsPrefix(S_echo \o << " " >>, line))) =>
            /\ Display(term'[1]) = Display(out)
            /\ term'[1].linebuf_index_ = 0
            /\ pc'[1] = "idle"

\* C11: for any text t typed after "echo " on one line at the keyboard of a
\* terminal, Enter prints t and a newline (a bare echo only the newline),
\* then a prompt, and leaves the line buffer empty.
C11_Echo == [][C11_EchoStep]_vars

\* "echo a b" was entered on the first row: the second row shows a b, the
\* third the prompt
C11_Witness ==
    /\ user.entered = << S_echo \o << " ", "a", " ", "b" >> >>
    /\ SubSeq(term[1].screen[2], 1, 4) = << "a", " ", "b", " " >>
    /\ term[1].screen[3][1] = ">"
    /\ term[1].linebuf_index_ = 0

\* the command word of a line: the characters before the first blank
CommandWord(line) ==
    LET sp == {i \in 1..Len(line) : line[i] = " "}
    IN  IF sp = {} THEN line ELSE SubSeq(line, 1, MinOf(sp) - 1)

\* the grid after clear and the prompt
ClearedScreen ==
    [r \in 1..kRows |-> IF r = 1 THEN [BlankRow EXCEPT ![1] = ">"]
                        ELSE BlankRow]

C12_ClearStep ==
    (EnterStep /\ CommandWord(TypedLine(term[1])) = S_clear) =>
        /\ term'[1].screen = ClearedScreen
        /\ term'[1].cursor_y = 0
        /\ term'[1].cursor_x = 1
        /\ pc'[1] = "idle"

\* C12: from any terminal state, on any cursor row (the last one, where
\* Enter scrolls, too), the command clear blanks the whole grid and leaves
\* the cursor on row 0, with the new prompt on row 0.
C12_Clear == [][C12_ClearStep]_vars

\* clear was entered on the last row, after two lines of output
C12_Witness ==
    /\ Len(user.entered) = 2
    /\ user.entered[1] = S_echo \o << " ", "a", "b" >>
    /\ user.entered[2] = S_clear
    /\ term[1].screen = ClearedScreen
    /\ term[1].cursor_y = 0

Builtins == { S_echo, S_clear, S_lspci, S_ls, S_cat, S_noterm, S_memstat }

\* a line whose command word is no builtin and names no file
UnknownCommand(line) ==
    /\ CommandWord(line) # << >>
    /\ CommandWord(line) \notin Builtins
    /\ FindFile(CommandWord(line)).entry = NoEntry

C13_NoSuchCommandStep ==
    LET T == term[1]
        line == TypedLine(T)
        out == PrintStr(PrintStr(newline(T), S_no_such_command
                                             \o CommandWord(line) \o S_nl),
                        S_prompt)
    IN  (EnterStep /\ UnknownCommand(line)) =>
            /\ Display(term'[1]) = Display(out)
            /\ UNCHANGED launchVars
            /\ pc'[1] = "idle"
            /\ term'[1].linebuf_index_ = 0
            /\ term'[1].cmd_history_ =
                  << line >> \o SubSeq(T.cmd_history_, 1, kHistory - 1)

\* C13: a command word that is no builtin and that the filesystem does not
\* find makes Enter print "no such command: <word>" and a newline, start no
\* launch (no address space, the cache unchanged), return to a prompt with
\* an empty line buffer, and put the attempted line, and nothing else, at
\* the front of the history (whose ring of 8 drops its last line).
C13_NoSuchCommand == [][C13_NoSuchCommandStep]_vars

\* "xy z" was entered after a program was launched: it is the front of the
\* history, the program's address space is cached and nothing else changed
C13_Witness ==
    /\ Len(user.entered) = 2
    /\ user.entered[1] = << "p" >>
    /\ user.entered[2] = << "x", "y", " ", "z" >>
    /\ term[1].cmd_history_[1] = << "x", "y", " ", "z" >>
    /\ term[1].cmd_history_[2] = << "p" >>
    /\ "p" \in DOMAIN g_app_loads
    /\ pc[1] = "idle"

C14_LsStep ==
    LET T == term[1]
        out == PrintStr(ListAllEntries(newline(T)), S_prompt)
    IN  (EnterStep /\ TypedLine(T) = S_ls) =>
            /\ Display(term'[1]) = Display(out)
            /\ ~term'[1].null_arg
            /\ pc'[1] = "idle"

\* C14: ls entered with no argument at all (no blank after the command
\* word) lists the root directory and returns to the prompt, and reads
\* nothing through the absent argument pointer.
C14_LsNoArgument == [][C14_LsStep]_vars

--------------------------------------------------------------------------
\* Claims about the event loop, checked under SpecLoop

\* the event loop of task t takes the message at the head of its queue
LoopTakes(t) ==
    pc[t] = "loop" /\ msgq[t] # << >> /\ msgq'[t] = Tail(msgq[t])

\* the terminal of task t has a window and the window is active
BlinkOn(t) == tt[t].show_window /\ tt[t].window_isactive

C15_LoopStep ==
    \A t \in Tasks :
       /\ LoopTakes(t) /\ Head(msgq[t]).type = "kTimerTimeout" =>
             /\ timers'[t] = timers[t] + 1
             /\ term'[t] = IF BlinkOn(t) THEN BlinkCursor(term[t]) ELSE term[t]
             /\ term'[t].cursol_visible_ = (term[t].cursol_visible_ # BlinkOn(t))
             /\ tt'[t].blink_draws =
                    tt[t].blink_draws + (IF BlinkOn(t) THEN 1 ELSE 0)
       /\ tt'[t].blink_draws # tt[t].blink_draws =>
             LoopTakes(t) /\ Head(msgq[t]).type = "kTimerTimeout" /\ BlinkOn(t)
       /\ tt'[t].window_isactive # tt[t].window_isactive =>
             /\ LoopTakes(t)
             /\ Head(msgq[t]).type = "kWindowActive"
             /\ tt'[t].window_isactive = Head(msgq[t]).activate
       /\ LoopTakes(t) /\ Head(msgq[t]).type = "kKeyPush"
                       /\ ~Head(msgq[t]).press =>
             /\ term'[t] = term[t]
             /\ pc' = pc
             /\ tt' = tt
             /\ UNCHANGED launchVars

\* C15: in the event loop a timer message always re-arms the blink timer,
\* and toggles the cursor and sends DrawArea only when the terminal has a
\* window and the window is active; the active flag changes only on a
\* window-focus message; a key message that is not a press calls nothing.
C15_EventLoop == [][C15_LoopStep]_vars

\* a timer message has blinked the cursor of an active terminal, and the
\* timer is armed again
C15_Witness ==
    /\ tt[1].blink_draws = 1
    /\ tt[1].window_isactive
    /\ timers[1] = 1
    /\ msgq[1] = << >>

--------------------------------------------------------------------------
\* SpecLoopFair: the terminal tasks under a fair scheduler: a task that can
\* run a turn of its event loop or of Read, or can return from Sleep,
\* eventually does.  The user enters fewer lines and keys than in SpecLoop,
\* and no noterm line: the first terminal task is the only one.

\* a turn of the event loop of task t can run: the task is at the top of
\* the loop (and, see LoopNotStopped, no bound of the model stops the turn)
LoopReady(t) == pc[t] = "loop"

\* no bound of the model stops a turn of the event loop: when Enter is at
\* the head of the queue, ExecuteFile can be entered and NewTask has a task
LoopNotStopped(t) ==
    LoopReady(t) /\ msgq[t] # << >> /\ Head(msgq[t]).type = "kKeyPush"
                /\ Head(msgq[t]).ascii = "\n" =>
       /\ launches < MaxLaunches
       /\ term[t].linebuf_[1] = "n" => FreeTasks # {}

\* the first conjunct is WF_vars of Loop_Step, with LoopReady for ENABLED
LoopFairness ==
    \A t \in Tasks :
       /\ \/ []<>~LoopReady(t)
          \/ []<><<\E ub \in UB, at0 \in AtNull : Loop_Step(t, ub, at0)>>_vars
       /\ WF_vars(Loop_Wake(t))
       /\ WF_vars(\E ub \in UB : Read_Step(t, ub))
       /\ WF_vars(Read_Wake(t))

\* the command lines and the keys of the user of SpecLoopFair
FairLines == { << "p" >> }
FairKeys == { KeyMsg(TRUE, TRUE, 7, "d"),
             KeyMsg(TRUE, FALSE, KeyCodeOf("x"), "x") }

NextLoopFair ==
    \/ \E t \in Tasks : TaskTerminal_Start(t)
    \/ \E t \in Tasks : TaskTerminal_Timer(t)
    \/ \E t \in Tasks, ub \in UB, at0 \in AtNull : Loop_Step(t, ub, at0)
    \/ \E t \in Tasks : Loop_Wake(t)
    \/ \E t \in Tasks : LoadApp_Setup(t)
    \/ \E t \in Tasks : LoadApp_Load(t)
    \/ \E t \in Tasks : LoadApp_Second(t)
    \/ \E t \in Tasks : ExecuteFile_Args(t)
    \/ \E t \in Tasks : Child_Read(t)
    \/ \E t \in Tasks, ub \in UB : Read_Step(t, ub)
    \/ \E t \in Tasks : Read_Wake(t)
    \/ \E t \in Tasks, ret \in ExitCodes : Child_Exit(t, ret)
    \/ \E t \in Tasks, ok \in BOOLEAN, ub \in UB : ExecuteFile_Cleanup(t, ok, ub)
    \/ \E t \in Tasks, ub \in UB : ExecuteLine_Resume(t, ub)
    \/ \E t \in Tasks, line \in FairLines : Env_TypeLine(t, line)
    \/ \E t \in Tasks, k \in FairKeys : Env_Key(t, k)
    \/ \E t \in Tasks, b \in BOOLEAN : Env_WindowActive(t, b)
    \/ \E t \in Tasks : Timer_Fire(t)

SpecLoopFair == InitLoop /\ [][NextLoopFair]_vars /\ LoopFairness

\* the event loop of task t, or the Read its program called, is running
Receiving(t) ==
    \/ pc[t] \in {"loop", "asleep"}
    \/ pc[t] = "CallApp" /\ rd[t].st \in {"run", "sleep"}

\* task t is asleep: in Sleep, called from its event loop or from Read
Asleep(t) == pc[t] = "asleep" \/ (pc[t] = "CallApp" /\ rd[t].st = "sleep")

\* C17: no lost wakeup: under fair scheduling the message at the head of the
\* queue of a task whose event loop or Read is running is eventually
\* dequeued by the task, and the task does not stay asleep while its queue
\* is not empty.
C17_NoLostWakeup ==
    \A t \in Tasks :
       /\ []LoopNotStopped(t)
       /\ \A n \in 0..1 :
             (Receiving(t) /\ msgq[t] # << >> /\ dequeued[t] = n)
                ~> (dequeued[t] # n /\ ~Asleep(t))

\* a task that went to sleep in its event loop, took the messages sent then,
\* and is now asleep in Read with a message in its queue
C17_Witness ==
    \E t \in Tasks :
       /\ pc[t] = "CallApp" /\ rd[t].st = "sleep"
       /\ msgq[t] # << >>
       /\ ~tt[t].intr

--------------------------------------------------------------------------
\* SpecLoad: the launcher on images whose segments begin and end on and off
\* page boundaries.  One task launches the program under the entry p, whose
\* file is rewritten between launches.

SegImages == { "A", "Even", "Odd", "Phys" }

NextLoad ==
    \/ \E first_arg \in LaunchArgs :
          ExecuteFile_Call(1, "p", << "p" >>, first_arg)
    \/ LoadApp_Setup(1)
    \/ LoadApp_Load(1)
    \/ LoadApp_Second(1)
    \/ ExecuteFile_Args(1)
    \/ \E ret \in ExitCodes : Child_Exit(1, ret)
    \/ \E ok \in BOOLEAN, ub \in UB : ExecuteFile_Cleanup(1, ok, ub)
    \/ ExecuteFile_Return(1)
    \/ \E img \in SegImages : OverwriteFile("p", img)

SpecLoad == Init /\ [][NextLoad]_vars

--------------------------------------------------------------------------
\* Claims about the loader, checked under SpecLoad

\* what a byte at address 0 may hold when the loader runs
AtZero == { 0, 255 }

\* the byte a memcpy call of the load writes past the file's bytes, when b
\* lies at address 0
TailByte(c, b) == IF c.src = "address 0" THEN b ELSE 0

\* C18: after CopyLoadSegments the first p_filesz bytes of every loadable
\* segment are the image's bytes and the remaining p_memsz - p_filesz bytes
\* are all zero, whatever memory held before, at address 0 included.
C18_ZeroFilled ==
    \A t \in Tasks, b \in AtZero :
       \A i \in DOMAIN lv[t].copies :
          LET c == lv[t].copies[i]
          IN  /\ i % 2 = 1 => c.src = "image"
              /\ i % 2 = 0 /\ c.n > 0 => TailByte(c, b) = 0

\* the pages that hold the bytes [p_vaddr, p_vaddr + p_memsz) of a segment
RangePages(ph) ==
    { a \in { PageBase(ph.p_vaddr) + k * kPageBytes :
                k \in 0..(ph.p_memsz \div kPageBytes + 1) } :
        a < ph.p_vaddr + ph.p_memsz }

\* the loadable segments of an image
LoadSegments(ehdr) ==
    { ehdr.phdr[i] : i \in { j \in 1..Len(ehdr.phdr) :
                               ehdr.phdr[j].p_type = "PT_LOAD" } }

\* C19: once CopyLoadSegments has succeeded, the pages it had mapped cover
\* [p_vaddr, p_vaddr + p_memsz) of every loadable segment, aligned or not,
\* and the high-water mark it returns is at least p_vaddr + p_memsz of
\* every loadable segment.
C19_PagesCover ==
    \A t \in Tasks :
       pc[t] = "LoadApp2" =>
          \A ph \in LoadSegments(Images[lv[t].loaded]) :
             /\ RangePages(ph) \subseteq owned[cr3[t]] \cup shared[cr3[t]]
             /\ lv[t].app_load.vaddr_end >= ph.p_vaddr + ph.p_memsz

\* the smallest multiple of the page size that is not below a
PageRoundUp(a) == ((a + kPageBytes - 1) \div kPageBytes) * kPageBytes

\* C20: at control transfer the demand-paging range begins and ends at the
\* image's high-water mark rounded up to the page size, also for a mark
\* that is a multiple of 4096, and the memory-mapped-file range ends at the
\* base of the stack page.
C20_DemandPagingRange ==
    \A t \in Tasks :
       pc[t] = "CallApp" =>
          /\ dpaging[t].begin = PageRoundUp(lv[t].app_load.vaddr_end)
          /\ dpaging[t].end = dpaging[t].begin
          /\ dpaging[t].fmap_end = StackFrameAddr

--------------------------------------------------------------------------
\* The line editor: any key at any time (terminal.cpp:272-327, 593-617)

\* the number of lines the user enters
MaxEdits == 1

\* a printable key, also when the line or the row is full
Edit_Key(c) ==
    /\ term' = [term EXCEPT ![1] = InputKey(@, 0, 0, c).T]
    /\ UNCHANGED << user, TermRest >>

\* Backspace, also on an empty line
Edit_Backspace ==
    /\ term' = [term EXCEPT ![1] = InputKey(@, 0, 0, BS).T]
    /\ UNCHANGED << user, TermRest >>

\* Enter on a line that names no command and no file, or on an empty line
Edit_Enter ==
    /\ Len(user.entered) < MaxEdits
    /\ LET r == InputKey(term[1], 0, 0, "\n")
       IN  /\ r.kind = "done"
           /\ term' = [term EXCEPT ![1] = r.T]
    /\ user' = [user EXCEPT !.entered = Append(@, TypedLine(term[1]))]
    /\ UNCHANGED TermRest

\* the up and the down arrow
Edit_History(keycode) ==
    /\ term' = [term EXCEPT ![1] = InputKey(@, 0, keycode, NUL).T]
    /\ UNCHANGED << user, TermRest >>

NextEdit ==
    \/ Edit_Key("a")
    \/ Edit_Backspace
    \/ Edit_Enter
    \/ \E keycode \in {kKeyUp, kKeyDown} : Edit_History(keycode)

SpecEdit == InitTerm /\ [][NextEdit]_vars

\* C22: while a line is edited the cursor column is the prompt's end column
\* plus the length of the line buffer, whatever printable keys, Backspaces
\* and history keys came before; so a Backspace on an empty line buffer
\* changes nothing and the cursor never moves back over the prompt.
C22_CursorTracksLine ==
    term[1].cursor_x = 1 + term[1].linebuf_index_

\* C21: the line buffer length stays in 0..kLineMax-1, the cursor column in
\* 0..kColumns-1 and the cursor row in 0..kRows-1 after any keys and any
\* printing of a windowed terminal.
C21_EditBounds ==
    /\ term[1].linebuf_index_ \in 0..(kLineMax - 1)
    /\ term[1].cursor_x \in 0..(kColumns - 1)
    /\ term[1].cursor_y \in 0..(kRows - 1)

\* a printable key at either limit is dropped: nothing of the terminal changes
C21_KeyDropped ==
    [][ ( /\ Edit_Key("a")
          /\ \/ term[1].cursor_x >= kColumns - 1
             \/ term[1].linebuf_index_ >= kLineMax - 1 )
        => term' = term ]_vars

--------------------------------------------------------------------------
\* The blink timer and the focus messages across a read (terminal.cpp:643-690,
\* 700-714)

\* task t has armed its first blink timer (terminal.cpp:646) and has not
\* faulted
Armed(t) ==
    \/ pc[t] \in {"loop", "asleep"}
    \/ /\ pc[t] \notin {"none", "start", "idle", "feed", "timer", "fault"}
       /\ tt[t].after = "loop"

TimerQueued(t) ==
    \E i \in 1..Len(msgq[t]) : msgq[t][i].type = "kTimerTimeout"

\* C23: once a terminal task has armed its first blink timer, a blink timer
\* is pending or a timer-expiry message is in its queue, also while its
\* child is blocked in Read.
C23_BlinkChain ==
    \A t \in Tasks : Armed(t) => timers[t] > 0 \/ TimerQueued(t)

\* a step that takes a focus message from the queue records it in
\* window_isactive
C23_FocusRecorded ==
    [][ \A t \in Tasks :
          ( /\ msgq[t] # << >>
            /\ Head(msgq[t]).type = "kWindowActive"
            /\ msgq'[t] = Tail(msgq[t]) )
          => tt'[t].window_isactive = Head(msgq[t]).activate ]_vars

\* the chain is kept by the event loop itself: it is only broken in a task
\* whose child has called Read
C23_ChainOutsideRead ==
    \A t \in Tasks :
       Armed(t) /\ rd[t].calls = 0 => timers[t] > 0 \/ TimerQueued(t)

--------------------------------------------------------------------------
\* The image cache and failed loads (terminal.cpp:205-223)

\* an image that passes the tests of LoadApp and LoadElf: the ELF magic, an
\* executable, the first loadable segment in the upper half
ValidImage(img) ==
    /\ Images[img].magic
    /\ Images[img].e_type = "ET_EXEC"
    /\ GetFirstLoadAddress(Images[img]) >= UserBase

\* the entry points of the valid images a directory entry may hold
ValidEntryPoints(f) ==
    { Images[img].e_entry : img \in { i \in Contents[f] : ValidImage(i) } }

\* every cached layout is that of a valid image of its file, and control is
\* only transferred to the entry point of one
C24_CacheValid ==
    /\ \A f \in DOMAIN g_app_loads :
          g_app_loads[f].entry \in ValidEntryPoints(f)
    /\ \A t \in Tasks :
          pc[t] = "CallApp" =>
             lv[t].app_load.entry \in ValidEntryPoints(lv[t].file)

\* a load that ends in an error (no magic, a header LoadElf rejects, or a
\* segment that could not be mapped) leaves the cache as it was and ends the
\* launch
C24_FailedLoadStep ==
    \A t \in Tasks :
       ( /\ pc[t] = "LoadFile"
         /\ pc'[t] # "LoadFile"
         /\ \/ ~ValidImage(files[lv[t].file])
            \/ lv'[t].err # "kSuccess" )
       => /\ g_app_loads' = g_app_loads
          /\ lv[t].file \notin DOMAIN g_app_loads'
          /\ pc'[t] = "ExecRet"
          /\ lv'[t].err \in {"kInvalidFile", "kInvalidFormat", "kNoEnoughMemory"}

\* C24: the image cache only holds layouts of images that loaded
\* successfully: a launch whose file lacks the ELF magic, fails the header
\* validation or fails while a segment is mapped inserts nothing, so a later
\* launch of the same entry takes the miss path again, and control is never
\* transferred to an entry point recorded by a failed load.
C24_CacheOnlySuccessfulLoads ==
    []C24_CacheValid /\ [][C24_FailedLoadStep]_vars

\* a second launch of an entry whose load has failed before is on the miss
\* path again, the cache without that entry
C24_Witness ==
    /\ launches = 2
    /\ pc[1] = "LoadFile"
    /\ lv[1].file \in lv[1].failed
    /\ lv[1].file \notin DOMAIN g_app_loads

--------------------------------------------------------------------------
\* Two terminal tasks launching the same file (terminal.cpp:188-232, 462-536):
\* the tasks are switched between the steps of LoadApp, so that both may
\* look the file up in g_app_loads before either has inserted it

\* the file both tasks launch
RaceFile == "p"

Race_Launch(t) ==
    ExecuteFile_Call(t, RaceFile, << RaceFile >>, NullStr)

NextRace ==
    \/ \E t \in Tasks : Race_Launch(t)
    \/ \E t \in Tasks : LoadApp_Setup(t)
    \/ \E t \in Tasks : LoadApp_Load(t)
    \/ \E t \in Tasks : LoadApp_Second(t)
    \/ \E t \in Tasks : ExecuteFile_Args(t)
    \/ \E t \in Tasks, ret \in ExitCodes : Child_Exit(t, ret)
    \/ \E t \in Tasks, ok \in BOOLEAN, ub \in UB : ExecuteFile_Cleanup(t, ok, ub)
    \/ \E t \in Tasks : ExecuteFile_Return(t)
    \/ \E img \in Contents[RaceFile] : OverwriteFile(RaceFile, img)

SpecRace == Init /\ [][NextRace]_vars

\* the address spaces the cache refers to
CachedSpaces == { g_app_loads[f].pml4 : f \in DOMAIN g_app_loads }

\* C25: when two terminal tasks load the same file that is not yet cached,
\* with their LoadApp executions interleaved, every address space a launch
\* has built is the cache entry's space or is freed once the task's child
\* has exited and ExecuteFile has cleaned up without error: no loaded space
\* is left that nothing refers to.
C25_NoOrphanSpace ==
    [][ \A t \in Tasks :
          ( pc[t] = "Cleanup" /\ pc'[t] = "ExecRet" /\ lv'[t].err = "kSuccess" )
          => lv[t].mapped \cap pml4s' \subseteq CachedSpaces' ]_vars

\* the cache holds one layout for the file once a load of it has succeeded
C25_OneLayout ==
    \A t \in Tasks :
       pc[t] \in {"LoadApp2", "ExecArgs", "CallApp"} =>
          lv[t].file \in DOMAIN g_app_loads

====
